---- MODULE Spec2Model ----
(***************************************************************************)
(* Action execution and session management of ml.school-extension.         *)
(*                                                                         *)
(* Two programs share the repository:                                      *)
(*   - the VS Code extension (src/unnamed/part_002, an earlier revision in *)
(*     src/src/extension.ts): a pool of named terminals with an idle flag, *)
(*     driven by webview messages and by the terminal events of VS Code;   *)
(*   - the browser application (src/unnamed/part_000) with its Pyodide     *)
(*     runner (src/unnamed/part_001).                                      *)
(* Spec is the extension with its external runtime, AppSpec the browser    *)
(* application.                                                            *)
(***************************************************************************)
EXTENDS Integers, Sequences, FiniteSets, TLC

(* ------------------------------ bounds -------------------------------- *)
\* terminals the runtime will create in one run
MaxTerminals == 2
\* webview messages that ask for a command in one run
MaxSends == 3
\* shell-integration change events the runtime raises in one run
MaxIntegrationEvents == 1

\* user triggers (and the warm-up on mount) the application handles in one run
MaxCalls == 3
\* fetches of the sample code in flight at once
MaxSampleFetches == 1
\* asynchronous completions (settled fetches, loads and executions, chunks
\* written) the application handles in one run
MaxCompletions == 6
\* rows of a table handed to buildTableString
MaxRows == 2
\* lines of a text handed to formatTerminalOutput
MaxLines == 2
\* times the page is loaded again
MaxReloads == 2

(* ----------------------------- constants ------------------------------ *)
TERMINAL_NAME == "ml.school"

\* terminal names a curriculum action may carry ("" and "undefined" stand
\* for an action without a terminal attribute)
ActionTerminals == {"a", "", "undefined"}
\* names runCommandInTerminal receives (the webview has filled the default in)
PanelTerminals == {"a", TERMINAL_NAME}
\* the texts a command action may carry: a command line, or nothing
Commands == {<<"c1">>, <<>>}

TermIds == 1..MaxTerminals
NoName == "<none>"
NoTerminal == 0

(* ------------------------------- state -------------------------------- *)
VARIABLES
    terminals,        \* the module-level list {terminal, idle}[]
    windowTerminals,  \* vscode.window.terminals: the runtime's live terminals
    termName,         \* Terminal.name of every terminal object created so far
    created,          \* number of vscode.window.createTerminal calls
    changeListeners,  \* terminals with an onDidChangeTerminalShellIntegration listener
    endListeners,     \* per terminal, its onDidEndTerminalShellExecution listeners
    closeListeners,   \* number of onDidCloseTerminal listeners
    sent,             \* per terminal, the texts passed to Terminal.sendText
    shown,            \* terminal last revealed by Terminal.show
    executing,        \* per terminal, forwarded commands whose end was not signalled
    closePending,     \* terminals gone from the registry, close event not yet raised
    sends,            \* number of command messages handled
    integrationEvents, \* number of shell-integration change events raised
    last,             \* the handler that ran last and what it did
    effects,          \* the calls of the step just taken, if a message handler, in order
    viewer,           \* the document shown by vscode.window.showTextDocument
    openPending,      \* files whose openTextDocument has not settled
    externalOpened,   \* the URIs passed to vscode.env.openExternal
    errorMessages,    \* number of vscode.window.showErrorMessage calls
    workspaceOpen,    \* vscode.workspace.workspaceFolders is not empty
    program,          \* which of the two programs the run is of
    \* --- the browser application (App.tsx) and its runner (pyRunner) ---
    mounted,          \* the effects of the first render have run
    running,          \* useState running
    output,           \* useState output: the transcript
    currentFilePath,  \* useState currentFilePath
    editorValue,      \* useState editorValue
    sampleCode,       \* useState sampleCode
    exerciseActive,   \* useState exerciseActive
    suppressWarnings, \* useState suppressWarnings
    opened,           \* the URLs passed to window.open
    samplePending,    \* fetches of the sample code still in flight
    pyodideReady,     \* the module-level promise of pyRunner (0 for null)
    promises,         \* state of every promise window.loadPyodide returned
    loads,            \* number of window.loadPyodide invocations
    calls,            \* the asynchronous calls started so far
    toc,              \* useState toc: the actions of the loaded curriculum
    stdoutSink,       \* the interpreter's stdout handler (0: the loader's)
    stderrSink,       \* the interpreter's stderr handler (0: the loader's)
    sinkReturn,       \* what py.setStdout and py.setStderr return
    completions,      \* number of asynchronous completions handled
    ncalls,           \* number of triggers handled
    helper,           \* the pure function under study ("none": a program runs)
    helperInput,      \* its argument
    helperResult,     \* what its latest application returned
    helperApplied,    \* how many times it was applied
    storedSuppress,   \* localStorage item 'suppressWarnings' ("null": none)
    storedMode,       \* localStorage item 'tocMode' ("null": none)
    night,            \* useState night of ModeToggle
    storeWritable,    \* whether localStorage.setItem succeeds
    lastWritten,      \* what the latest change of the checkbox stored
    reloads           \* number of times the page was loaded again

poolVars == <<terminals, windowTerminals, termName, created, changeListeners,
              endListeners, closeListeners, sent, shown, executing,
              closePending, sends, integrationEvents, last>>

\* the side channels of the extension
sideVars == <<viewer, openPending, externalOpened, errorMessages>>
helperVars == <<helper, helperInput, helperResult, helperApplied>>
\* what a run of the programs never changes
prefVars == <<storedSuppress, storedMode, night, storeWritable, lastWritten,
              reloads>>
setting == <<program, workspaceOpen, helperVars, prefVars>>
extVars == <<poolVars, effects, sideVars, setting>>

appVars == <<mounted, running, output, currentFilePath, editorValue,
             sampleCode, exerciseActive, suppressWarnings, opened,
             samplePending, pyodideReady, promises, loads, calls, toc,
             stdoutSink, stderrSink, sinkReturn, completions, ncalls>>

\* the interpreter's two stream handlers
sinks == <<stdoutSink, stderrSink>>

vars == <<extVars, appVars>>

(* ---------------------------- text helpers ---------------------------- *)
(* Texts are sequences of characters.  A fixed message, a path or a URL    *)
(* whose spelling plays no role is written as one symbolic character.      *)
Whitespace == {" ", "\t", "\n"}
Undefined == "undefined"

\* String.prototype.startsWith
StartsWith(text, prefix) ==
    Len(text) >= Len(prefix) /\ SubSeq(text, 1, Len(prefix)) = prefix

\* String.prototype.includes for a one-character needle
Includes(text, needle) == \E i \in 1..Len(text) : text[i] = needle

\* String.prototype.includes
IncludesText(text, needle) ==
    \E i \in 1..(Len(text) - Len(needle) + 1) :
        \A j \in 1..Len(needle) : text[i + j - 1] = needle[j]

\* String.prototype.endsWith
EndsWith(text, suffix) ==
    /\ Len(text) >= Len(suffix)
    /\ SubSeq(text, Len(text) - Len(suffix) + 1, Len(text)) = suffix

\* the letters a case-insensitive pattern folds
UpperCase == <<"A", "B", "C", "D", "E", "F", "G", "H", "I", "J", "K", "L", "M",
               "N", "O", "P", "Q", "R", "S", "T", "U", "V", "W", "X", "Y", "Z">>
LowerCase == <<"a", "b", "c", "d", "e", "f", "g", "h", "i", "j", "k", "l", "m",
               "n", "o", "p", "q", "r", "s", "t", "u", "v", "w", "x", "y", "z">>
UpperLetters == {UpperCase[i] : i \in 1..Len(UpperCase)}
Lower(char) ==
    IF char \in UpperLetters
    THEN LowerCase[CHOOSE i \in 1..Len(UpperCase) : UpperCase[i] = char]
    ELSE char
ToLower(text) == [i \in 1..Len(text) |-> Lower(text[i])]

\* RegExp.prototype.test for a literal pattern with the i flag, the pattern
\* given in lower case
TestIgnoreCase(lowerPattern, text) ==
    \E i \in 1..(Len(text) - Len(lowerPattern) + 1) :
        \A j \in 1..Len(lowerPattern) :
            Lower(text[i + j - 1]) = lowerPattern[j]

\* String.prototype.split('\n')
RECURSIVE SplitLines(_)
SplitLines(text) ==
    IF \E i \in 1..Len(text) : text[i] = "\n"
    THEN LET breaks == {i \in 1..Len(text) : text[i] = "\n"}
             break == CHOOSE i \in breaks : \A j \in breaks : i <= j
         IN  <<SubSeq(text, 1, break - 1)>>
             \o SplitLines(SubSeq(text, break + 1, Len(text)))
    ELSE <<text>>

\* Array.prototype.join('\n')
RECURSIVE JoinLines(_)
JoinLines(lines) ==
    IF Len(lines) = 0 THEN <<>>
    ELSE IF Len(lines) = 1 THEN lines[1]
    ELSE lines[1] \o <<"\n">> \o JoinLines(Tail(lines))

\* String.prototype.trim
Trim(text) ==
    IF \A i \in 1..Len(text) : text[i] \in Whitespace
    THEN <<>>
    ELSE LET first == CHOOSE i \in 1..Len(text) :
                         /\ text[i] \notin Whitespace
                         /\ \A j \in 1..(i - 1) : text[j] \in Whitespace
             final == CHOOSE i \in 1..Len(text) :
                         /\ text[i] \notin Whitespace
                         /\ \A j \in (i + 1)..Len(text) : text[j] \in Whitespace
         IN  SubSeq(text, first, final)

\* positions of the separator in text
Bars(text) == {i \in 1..Len(text) : text[i] = "|"}
\* the position of the first separator after position from, or Len + 1
NextBar(text, from) ==
    IF \E i \in Bars(text) : i > from
    THEN CHOOSE i \in Bars(text) :
            i > from /\ \A j \in Bars(text) : j > from => i <= j
    ELSE Len(text) + 1

\* target.split('|')[0]
SplitFile(target) == SubSeq(target, 1, NextBar(target, 0) - 1)
\* target.split('|')[1]
SplitCommand(target) ==
    IF Bars(target) = {} THEN Undefined
    ELSE LET bar == NextBar(target, 0)
         IN  SubSeq(target, bar + 1, NextBar(target, bar) - 1)

(* --------------------------- list helpers ----------------------------- *)
\* Array.prototype.findIndex with t.terminal.name === terminalName;
\* positions are 1-based and 0 stands for JavaScript's -1
FindIndexByName(pool, terminalName) ==
    IF \E i \in 1..Len(pool) : termName[pool[i].terminal] = terminalName
    THEN CHOOSE i \in 1..Len(pool) :
            /\ termName[pool[i].terminal] = terminalName
            /\ \A j \in 1..(i - 1) : termName[pool[j].terminal] # terminalName
    ELSE 0

\* Array.prototype.findIndex with t.terminal === aTerminal
FindIndexByTerminal(pool, aTerminal) ==
    IF \E i \in 1..Len(pool) : pool[i].terminal = aTerminal
    THEN CHOOSE i \in 1..Len(pool) :
            /\ pool[i].terminal = aTerminal
            /\ \A j \in 1..(i - 1) : pool[j].terminal # aTerminal
    ELSE 0

\* terminals.splice(index, 1)
Splice(pool, index) ==
    SubSeq(pool, 1, index - 1) \o SubSeq(pool, index + 1, Len(pool))

\* vscode.window.terminals.some((t) => t.name === terminalName)
NameIsLive(terminalName) ==
    \E t \in windowTerminals : termName[t] = terminalName

(* ------------------------- event handlers ----------------------------- *)
\* a listener that marks its session idle at the end of any execution
OnDidEndTerminalShellExecutionOfAny(pool, newTerminal, eventTerminal) ==
    LET terminalIndex == FindIndexByTerminal(pool, newTerminal)
    IN  IF terminalIndex # 0
        THEN [pool EXCEPT ![terminalIndex].idle = TRUE]
        ELSE pool

\* a listener that looks the session up by name instead of by terminal object
OnDidEndTerminalShellExecutionByName(pool, newTerminal, eventTerminal) ==
    IF eventTerminal = newTerminal
    THEN LET terminalIndex == FindIndexByName(pool, termName[newTerminal])
         IN  IF terminalIndex # 0
             THEN [pool EXCEPT ![terminalIndex].idle = TRUE]
             ELSE pool
    ELSE pool

\* the listener createTerminal(newTerminal) registers for the end of a
\* shell execution, run for an event of eventTerminal
OnDidEndTerminalShellExecution(pool, newTerminal, eventTerminal) ==
    IF eventTerminal = newTerminal
    THEN LET terminalIndex == FindIndexByTerminal(pool, newTerminal)
         IN  IF terminalIndex # 0
             THEN [pool EXCEPT ![terminalIndex].idle = TRUE]
             ELSE pool
    ELSE pool

\* a close listener that splices without testing the index it found
OnDidCloseTerminalUnchecked(pool, closedTerminal) ==
    LET index == FindIndexByTerminal(pool, closedTerminal)
    IN  IF pool = <<>> THEN pool
        ELSE Splice(pool, IF index # 0 THEN index ELSE Len(pool))

\* a close listener that spares a busy session
OnDidCloseTerminalIdleOnly(pool, closedTerminal) ==
    LET index == FindIndexByTerminal(pool, closedTerminal)
    IN  IF index # 0 /\ pool[index].idle THEN Splice(pool, index) ELSE pool

\* the listener createTerminal registers for a closed terminal
OnDidCloseTerminal(pool, closedTerminal) ==
    LET index == FindIndexByTerminal(pool, closedTerminal)
    IN  IF index # 0 THEN Splice(pool, index) ELSE pool

\* n listeners of newTerminal run one after the other
RECURSIVE RunEndListenersOf(_, _, _, _)
RunEndListenersOf(pool, newTerminal, n, eventTerminal) ==
    IF n = 0 THEN pool
    ELSE RunEndListenersOf(
            OnDidEndTerminalShellExecution(pool, newTerminal, eventTerminal),
            newTerminal, n - 1, eventTerminal)

\* every registered end-of-execution listener, of terminals 1..upTo, runs
RECURSIVE RunEndListeners(_, _, _, _)
RunEndListeners(pool, listeners, upTo, eventTerminal) ==
    IF upTo = 0 THEN pool
    ELSE RunEndListenersOf(
            RunEndListeners(pool, listeners, upTo - 1, eventTerminal),
            upTo, listeners[upTo], eventTerminal)

\* every registered close listener runs
RECURSIVE RunCloseListeners(_, _, _)
RunCloseListeners(pool, n, closedTerminal) ==
    IF n = 0 THEN pool
    ELSE RunCloseListeners(OnDidCloseTerminal(pool, closedTerminal),
                           n - 1, closedTerminal)

(* ------------------------------ Init ---------------------------------- *)
NoCall == [op |-> "none", name |-> NoName, cmd |-> <<>>, result |-> "none",
           to |-> NoTerminal]

\* no message handler has just run; no document is shown. An effects record
\* holds the handler, the target of the message, the session name its
\* terminal attribute asks for, and what the handler did
NoEffects == [handler |-> "none", target |-> <<>>, terminal |-> "",
              did |-> <<>>]
NoFile == <<>>

PoolInit ==
    /\ terminals = <<>>
    /\ windowTerminals = {}
    /\ termName = [t \in TermIds |-> NoName]
    /\ created = 0
    /\ changeListeners = {}
    /\ endListeners = [t \in TermIds |-> 0]
    /\ closeListeners = 0
    /\ sent = [t \in TermIds |-> <<>>]
    /\ shown = NoTerminal
    /\ executing = [t \in TermIds |-> 0]
    /\ closePending = {}
    /\ sends = 0
    /\ integrationEvents = 0
    /\ last = NoCall
    /\ effects = NoEffects
    /\ viewer = NoFile
    /\ openPending = <<>>
    /\ externalOpened = <<>>
    /\ errorMessages = 0

(* --------------------- sending a command ------------------------------ *)
\* the stale-entry test of runCommandAction
IsStale(terminalIndex, terminalName) ==
    terminalIndex # 0 /\ ~NameIsLive(terminalName)

\* a test that creates a terminal for every send
MustCreateAlways(terminalIndex) == TRUE

\* the test that decides whether a terminal is created
MustCreate(terminalIndex) == terminalIndex = 0

\* an admission test that ignores the flag
IsIdleAlways(pool, terminalIndex) == TRUE

\* the admission test: terminals[terminalIndex].idle
IsIdle(pool, terminalIndex) == pool[terminalIndex].idle

\* an accepted send that forgets to clear the flag
MarkBusyForgotten(pool, terminalIndex) == pool

\* terminals[terminalIndex].idle = false
MarkBusy(pool, terminalIndex) == [pool EXCEPT ![terminalIndex].idle = FALSE]

\* a rejection that forwards the text all the same
RejectedSentAnyway(texts, aTerminal, command) == Append(texts, command)

\* the else branch: console.log("Command is already running. Please wait.")
RejectedSent(texts, aTerminal, command) == texts

\* an entry pushed as busy
NewEntryBusy(newTerminal) == [terminal |-> newTerminal, idle |-> FALSE]

\* terminals.push({ terminal, idle: true })
NewEntry(newTerminal) == [terminal |-> newTerminal, idle |-> TRUE]

\* the body shared by runCommandAction and runCommandInTerminal
Send(command, terminalName) ==
    LET found == FindIndexByName(terminals, terminalName)
        stale == IsStale(found, terminalName)
        pool1 == IF stale THEN Splice(terminals, found) ELSE terminals
        create == MustCreate(found)
        newTerminal == created + 1
        pool2 == IF create
                 THEN Append(pool1, NewEntry(newTerminal))
                 ELSE pool1
        terminalIndex == IF create THEN Len(pool2) ELSE found
    IN  /\ create => created < MaxTerminals
        /\ sends' = sends + 1
        \* createTerminal(terminalName)
        /\ IF create
           THEN /\ created' = newTerminal
                /\ termName' = [termName EXCEPT ![newTerminal] = terminalName]
                /\ windowTerminals' = windowTerminals \cup {newTerminal}
                /\ changeListeners' = changeListeners \cup {newTerminal}
                /\ closeListeners' = closeListeners + 1
           ELSE UNCHANGED <<created, termName, windowTerminals,
                            changeListeners, closeListeners>>
        /\ IF terminalIndex > Len(pool2)
           THEN \* terminals[terminalIndex] is undefined: TypeError, the
                \* promise of the async function rejects
                /\ terminals' = pool2
                /\ last' = [op |-> "send", name |-> terminalName, cmd |-> command,
                            result |-> "threw", to |-> NoTerminal]
                /\ UNCHANGED <<sent, shown, executing>>
           ELSE IF IsIdle(pool2, terminalIndex)
           THEN LET terminal == pool2[terminalIndex].terminal
                IN  /\ terminals' = MarkBusy(pool2, terminalIndex)
                    /\ shown' = terminal
                    /\ sent' = [sent EXCEPT ![terminal] = Append(@, command)]
                    /\ executing' = [executing EXCEPT ![terminal] = @ + 1]
                    /\ last' = [op |-> "send", name |-> terminalName,
                                cmd |-> command, result |-> "sent",
                                to |-> terminal]
           ELSE LET terminal == pool2[terminalIndex].terminal
                IN  /\ terminals' = pool2
                    /\ sent' = [sent EXCEPT ![terminal] =
                                   RejectedSent(@, terminal, command)]
                    /\ last' = [op |-> "send", name |-> terminalName,
                                cmd |-> command, result |-> "busy",
                                to |-> NoTerminal]
                    /\ UNCHANGED <<shown, executing>>
        /\ UNCHANGED <<endListeners, closePending, integrationEvents>>
        /\ UNCHANGED <<setting, appVars>>

\* the name runCommandAction uses for the terminal
DefaultedName(terminalName) ==
    IF terminalName = "" \/ terminalName = "undefined"
    THEN TERMINAL_NAME ELSE terminalName

\* what the call of runCommandAction just made has done to the terminal it
\* chose, in order
SendEffects ==
    IF last'.result = "sent" THEN <<"show", "sendText">>
    ELSE IF last'.result = "threw" THEN <<"throw">>
    ELSE <<>>

\* part_002: the webview posts runAction with action "command"
runCommandAction ==
    \E command \in Commands, terminalName \in ActionTerminals :
        /\ program = "extension"
        /\ sends < MaxSends
        /\ Send(command, DefaultedName(terminalName))
        /\ effects' = [handler |-> "send", target |-> command,
                       terminal |-> DefaultedName(terminalName), did |-> SendEffects]
        /\ UNCHANGED sideVars

\* extension.ts: the webview posts runCommandInTerminal
runCommandInTerminal ==
    \E command \in Commands, terminalName \in PanelTerminals :
        /\ program = "extension"
        /\ sends < MaxSends
        /\ Send(command, terminalName)
        /\ effects' = [handler |-> "send", target |-> command,
                       terminal |-> terminalName, did |-> SendEffects]
        /\ UNCHANGED sideVars

(* ------------------- the other kinds of action ------------------------ *)
\* the targets the webview may post with a browser, a file, a tests action
Urls == {<<"http://u">>, <<>>}
Files == {<<"f.py">>, <<>>}
\* the terminal attribute a tests action may carry
TestTerminals == {"a", "undefined"}
TestTargets ==
    { <<"f.py", " ", "|", " ", "c1">>,
      <<" ", "|", "c1">>,
      <<"f.py", "|", "c1", "|", "c1">>,
      <<"f.py">>,
      <<>> }

\* openFile(file) reaches its first await: the file is not empty and
\* getWorkspaceRoot() has not thrown
OpenRequested(file) == file # <<>> /\ workspaceOpen

\* openFile(file) up to its first await or its return
openFile(file) ==
    openPending' = IF OpenRequested(file)
                   THEN Append(openPending, file) ELSE openPending

\* the calls of openFile(file), in order; without a workspace folder
\* getWorkspaceRoot() throws before the try block and the promise of
\* openFile, which no caller awaits, is rejected
OpenFileEffects(file) ==
    <<"openFile">>
    \o (IF OpenRequested(file) THEN <<"openTextDocument">>
        ELSE IF file # <<>> THEN <<"rejected">>
        ELSE <<>>)

\* a handler of tests actions that runs the command before it opens the file
CommandThenFile(fileEffects, commandEffects) == commandEffects \o fileEffects

\* runTestAction: openFile(target); runCommandAction(command, "")
FileThenCommand(fileEffects, commandEffects) == fileEffects \o commandEffects

\* a message that changes nothing in the session pool
PoolUntouched ==
    UNCHANGED <<terminals, windowTerminals, termName, created,
                changeListeners, endListeners, closeListeners, sent, shown,
                executing, closePending, integrationEvents>>

\* the webview posts runAction with action "browser"
runBrowserAction ==
    \E url \in Urls :
        /\ program = "extension"
        /\ sends < MaxSends
        /\ sends' = sends + 1
        /\ externalOpened' = Append(externalOpened, url)
        /\ effects' = [handler |-> "runBrowserAction", target |-> url,
                       terminal |-> "",
                       did |-> <<"openExternal">>]
        /\ last' = [NoCall EXCEPT !.op = "browser"]
        /\ PoolUntouched
        /\ UNCHANGED <<viewer, openPending, errorMessages>>
        /\ UNCHANGED <<setting, appVars>>

\* the webview posts runAction with action "file"
runFileAction ==
    \E file \in Files :
        /\ program = "extension"
        /\ sends < MaxSends
        /\ sends' = sends + 1
        /\ openFile(file)
        /\ effects' = [handler |-> "openFile", target |-> file,
                       terminal |-> "",
                       did |-> OpenFileEffects(file)]
        /\ last' = [NoCall EXCEPT !.op = "file"]
        /\ PoolUntouched
        /\ UNCHANGED <<viewer, externalOpened, errorMessages>>
        /\ UNCHANGED <<setting, appVars>>

\* the webview posts runAction with action "tests"
runTestAction ==
    \E target \in TestTargets, terminalName \in TestTerminals :
        /\ program = "extension"
        /\ sends < MaxSends
        /\ IF SplitCommand(target) = Undefined
           THEN \* command.trim() throws a TypeError in runAction
                /\ sends' = sends + 1
                /\ effects' = [handler |-> "runAction", target |-> target,
                               terminal |-> DefaultedName(terminalName),
                               did |-> <<"throw">>]
                /\ last' = [NoCall EXCEPT !.op = "tests", !.result = "threw"]
                /\ PoolUntouched
                /\ UNCHANGED openPending
                /\ UNCHANGED <<setting, appVars>>
           ELSE LET file == Trim(SplitFile(target))
                    command == Trim(SplitCommand(target))
                IN  /\ openFile(file)
                    /\ Send(command, DefaultedName(""))
                    /\ effects' = [handler |-> "runTestAction",
                                   target |-> target,
                                   terminal |-> DefaultedName(terminalName),
                                   did |-> FileThenCommand(
                                              OpenFileEffects(file),
                                              SendEffects)]
        /\ UNCHANGED <<viewer, externalOpened, errorMessages>>

\* the webview posts runAction with an action runAction has no branch for
runOtherAction ==
    /\ program = "extension"
    /\ sends < MaxSends
    /\ sends' = sends + 1
    /\ effects' = [handler |-> "runAction", target |-> <<"q">>,
                   terminal |-> "",
                   did |-> <<>>]
    /\ last' = [NoCall EXCEPT !.op = "other"]
    /\ PoolUntouched
    /\ UNCHANGED sideVars
    /\ UNCHANGED <<setting, appVars>>

\* openTextDocument and showTextDocument settle: the document is shown, or
\* the catch block reports the error
FileOpenSettled ==
    \E i \in 1..Len(openPending) :
        /\ openPending' = Splice(openPending, i)
        /\ \/ viewer' = openPending[i] /\ UNCHANGED errorMessages
           \/ errorMessages' = errorMessages + 1 /\ UNCHANGED viewer
        /\ effects' = NoEffects
        /\ UNCHANGED <<poolVars, externalOpened, setting, appVars>>

(* ---------------------- events of the runtime ------------------------- *)
\* VS Code raises onDidChangeTerminalShellIntegration for a live terminal;
\* the listener of createTerminal(newTerminal) subscribes to the end of
\* shell executions when the event is about its own terminal
ShellIntegrationChanged ==
    \E terminal \in windowTerminals :
        /\ integrationEvents < MaxIntegrationEvents
        /\ integrationEvents' = integrationEvents + 1
        /\ endListeners' = [t \in TermIds |->
                              IF t \in changeListeners /\ terminal = t
                              THEN endListeners[t] + 1 ELSE endListeners[t]]
        /\ last' = [NoCall EXCEPT !.op = "integration", !.to = terminal]
        /\ UNCHANGED <<terminals, windowTerminals, termName, created,
                       changeListeners, closeListeners, sent, shown,
                       executing, closePending, sends>>
        /\ effects' = NoEffects
        /\ UNCHANGED <<sideVars, setting, appVars>>

\* VS Code raises onDidEndTerminalShellExecution for a forwarded command
ShellExecutionEnded ==
    \E terminal \in TermIds :
        /\ executing[terminal] > 0
        /\ executing' = [executing EXCEPT ![terminal] = @ - 1]
        /\ terminals' = RunEndListeners(terminals, endListeners, MaxTerminals,
                                        terminal)
        /\ last' = [NoCall EXCEPT !.op = "ended", !.to = terminal]
        /\ UNCHANGED <<windowTerminals, termName, created, changeListeners,
                       endListeners, closeListeners, sent, shown,
                       closePending, sends, integrationEvents>>
        /\ effects' = NoEffects
        /\ UNCHANGED <<sideVars, setting, appVars>>

\* a terminal leaves vscode.window.terminals (the user closes it, its
\* process exits)
TerminalDisposed ==
    \E terminal \in windowTerminals :
        /\ windowTerminals' = windowTerminals \ {terminal}
        /\ closePending' = closePending \cup {terminal}
        /\ last' = [NoCall EXCEPT !.op = "disposed", !.to = terminal]
        /\ UNCHANGED <<terminals, termName, created, changeListeners,
                       endListeners, closeListeners, sent, shown, executing,
                       sends, integrationEvents>>
        /\ effects' = NoEffects
        /\ UNCHANGED <<sideVars, setting, appVars>>

\* VS Code raises onDidCloseTerminal for it
TerminalClosed ==
    \E terminal \in closePending :
        /\ closePending' = closePending \ {terminal}
        /\ terminals' = RunCloseListeners(terminals, closeListeners, terminal)
        /\ last' = [NoCall EXCEPT !.op = "closed", !.to = terminal]
        /\ UNCHANGED <<windowTerminals, termName, created, changeListeners,
                       endListeners, closeListeners, sent, shown, executing,
                       sends, integrationEvents>>
        /\ effects' = NoEffects
        /\ UNCHANGED <<sideVars, setting, appVars>>

(* ====================== the browser application ====================== *)

PythonWord == <<"p", "y", "t", "h", "o", "n">>
DataCleaningPath == "session2/data_cleaning_example.py"
PythonDemo == PythonWord \o <<" ", "demo.py">>
PythonDataCleaning == PythonWord \o <<" ", DataCleaningPath>>
\* targets an author may write: two spaces after the word, a capital letter
PythonTwoSpaces == PythonWord \o <<" ", " ", "demo.py">>
CapitalPython == <<"P", "y", "t", "h", "o", "n", " ", "demo.py">>

\* the curricula /.guide/toc.json may hold, each as the set of actions the
\* learner can click
Curricula ==
    { { [action |-> "command", target |-> PythonDemo],
        [action |-> "command", target |-> PythonDataCleaning] },
      { [action |-> Undefined, target |-> <<"l", "s">>],
        [action |-> "browser", target |-> <<"http://u">>],
        [action |-> "file", target |-> <<"f.py">>],
        [action |-> "tests", target |-> <<"f.py", " ", "|", " ">> \o PythonDemo],
        [action |-> "command", target |-> <<>>],
        [action |-> "tests", target |-> <<"f.py">>],
        [action |-> "quiz", target |-> <<"q">>] },
      { [action |-> "command", target |-> PythonTwoSpaces],
        [action |-> "command", target |-> CapitalPython] } }

\* the source texts of the content store, as sequences of words
PlainSource == <<"print">>
PandasSource == <<"import", "pandas", "from", "numpy", "import", "array">>
ContentOf(path) ==
    IF \E i \in 1..Len(path) : path[i] = DataCleaningPath
    THEN PandasSource ELSE PlainSource
\* the editor's text after showHelloInEditor
HelloSource == <<"print">>
SummaryText == <<"<summary>">>

\* the directives runAction puts before the fetched code
ActionWarningsPrefix ==
    <<"import", "warnings", "ignore(DeprecationWarning)",
      "ignore(FutureWarning)", "ignore(.*Pyarrow.*)", "ignore(.*pandas.*)">>
\* the directives runCurrentEditorPython puts before the editor's text
EditorWarningsPrefix ==
    <<"import", "warnings", "ignore(DeprecationWarning)",
      "ignore(FutureWarning)">>

\* the fixed lines of the transcript
LoadingLine == <<"<loading python>", "\n">>
PythonFailedLine == <<"<python could not run in the browser>", "\n">>
CannotRunLine == <<"<commands cannot run in the browser>", "\n">>
EditorEchoLine == <<"$", " ", "run current code", "\n">>
EditorErrorLine == <<"<error while running>", "\n">>

(* ----------------------------- the console ---------------------------- *)
TerminalHeading == <<"<TERMINAL OUTPUT>", "\n", "<underline>">>
TerminalFooter == <<"\n", "<rule>", "\n", "<clock and hint>", "\n">>

\* the padding of buildTableString
TablePadding == 1
\* the widths of TerminalNote
LabelWidth == 8
NoteWidth == 80
NoteKept == 75

\* String.prototype.padEnd(width, ' ')
RECURSIVE PadEnd(_, _)
PadEnd(text, width) ==
    IF Len(text) >= width THEN text ELSE PadEnd(Append(text, " "), width)

\* TerminalNote({label, text}) for a text of one line
TerminalNote(label, text) ==
    LET displayText == IF Len(text) > NoteWidth
                       THEN SubSeq(text, 1, NoteKept) \o <<".", ".", ".">>
                       ELSE text
    IN  <<"<bullet>", " ", "[">> \o PadEnd(label, LabelWidth) \o <<"]", " ">>
        \o displayText

WarningLabel == <<"W", "a", "r", "n", "i", "n", "g">>
WarningColon == WarningLabel \o <<":">>
DeprecationWarning ==
    <<"D", "e", "p", "r", "e", "c", "a", "t", "i", "o", "n">> \o WarningLabel

\* the test of TerminalOutput for a warning line
WarningColonPattern == ToLower(WarningColon)
DeprecationWarningPattern == ToLower(DeprecationWarning)
IsWarningLine(line) ==
    \/ TestIgnoreCase(WarningColonPattern, line)
    \/ TestIgnoreCase(DeprecationWarningPattern, line)

\* the line classifier of TerminalOutput
RenderLineBannerFirst(line) ==
    IF StartsWith(line, <<"$", " ">>)
    THEN <<"<play>", " ">> \o SubSeq(line, 3, Len(line))
    ELSE IF StartsWith(line, <<"=", "=", "=">>) THEN line
    ELSE IF IsWarningLine(line) THEN TerminalNote(WarningLabel, line)
    ELSE IF Trim(line) = <<>> THEN <<>>
    ELSE <<" ", " ">> \o line
RenderLine(line) ==
    IF StartsWith(line, <<"$", " ">>)
    THEN <<"<play>", " ">> \o SubSeq(line, 3, Len(line))
    ELSE IF IsWarningLine(line) THEN TerminalNote(WarningLabel, line)
    ELSE IF StartsWith(line, <<"=", "=", "=">>) THEN line
    ELSE IF Trim(line) = <<>> THEN <<>>
    ELSE <<" ", " ">> \o line

\* TerminalOutput({output})
TerminalOutput(text) ==
    LET lines == SplitLines(text)
        renderedLines == [i \in 1..Len(lines) |-> RenderLine(lines[i])]
    IN  TerminalHeading \o <<"\n", "\n">> \o JoinLines(renderedLines)
        \o TerminalFooter

(* ------------------------- the warning filter ------------------------- *)
warningPatterns ==
    << <<"P", "y", "a", "r", "r", "o", "w", " ", "w", "i", "l", "l", " ",
      "b", "e", "c", "o", "m", "e", " ", "a", " ", "r", "e", "q", "u", "i",
      "r", "e", "d", " ", "d", "e", "p", "e", "n", "d", "e", "n", "c", "y">>,
       <<"T", "h", "e", " ", "b", "e", "h", "a", "v", "i", "o", "r", " ",
         "w", "i", "l", "l", " ", "c", "h", "a", "n", "g", "e", " ", "i",
         "n", " ", "p", "a", "n", "d", "a", "s", " ", "3", ".", "0">>,
       <<"T", "h", "i", "s", " ", "i", "n", "p", "l", "a", "c", "e", " ",
         "m", "e", "t", "h", "o", "d", " ", "w", "i", "l", "l", " ", "n",
         "e", "v", "e", "r", " ", "w", "o", "r", "k">>,
       <<"D", "e", "p", "r", "e", "c", "a", "t", "i", "o", "n", "W", "a",
         "r", "n", "i", "n", "g">>,
       <<"F", "u", "t", "u", "r", "e", "W", "a", "r", "n", "i", "n", "g">>,
       <<"W", "a", "r", "n", "i", "n", "g", ":">>,
       <<"p", "a", "n", "d", "a", "s">>,
       <<"i", "n", "p", "l", "a", "c", "e", " ", "m", "e", "t", "h", "o",
         "d">>,
       <<"i", "n", "t", "e", "r", "m", "e", "d", "i", "a", "t", "e", " ",
         "o", "b", "j", "e", "c", "t">> >>

\* a filter that lets every chunk pass
FilterNothing(text, suppress) == FALSE

\* shouldFilterOutput(text) in a render whose suppressWarnings is suppress
shouldFilterOutput(text, suppress) ==
    /\ suppress
    /\ \E i \in 1..Len(warningPatterns) : IncludesText(text, warningPatterns[i])

(* ------------------------ what scripts write -------------------------- *)
HiChunk == <<"h", "i">>
PandasChunk == <<"p", "a", "n", "d", "a", "s", " ", "2">>
FutureWarningChunk ==
    <<"F", "u", "t", "u", "r", "e">> \o WarningColon \o <<" ", "x">>

\* the chunks the interpreter writes while it runs code, in order: a script
\* that imports pandas writes a line and a warning, any other script a line
ScriptOutput(code) ==
    IF \E i \in 1..Len(code) : code[i] = "pandas"
    THEN <<[stream |-> "stdout", text |-> PandasChunk],
           [stream |-> "stderr", text |-> FutureWarningChunk]>>
    ELSE <<[stream |-> "stdout", text |-> HiChunk]>>

(* --------------------------- the runner's targets --------------------- *)
\* a replace that removes the seven characters of "python " only
StripPrefixOnly(target) ==
    IF StartsWith(target, PythonWord \o <<" ">>)
    THEN SubSeq(target, Len(PythonWord) + 2, Len(target))
    ELSE target

\* target.replace(/^python\s+/, '')
StripPython(target) ==
    IF /\ StartsWith(target, PythonWord)
       /\ Len(target) > Len(PythonWord)
       /\ target[Len(PythonWord) + 1] \in Whitespace
    THEN LET rest == SubSeq(target, Len(PythonWord) + 1, Len(target))
             skip == IF \A i \in 1..Len(rest) : rest[i] \in Whitespace
                     THEN Len(rest)
                     ELSE (CHOOSE i \in 1..Len(rest) :
                              /\ rest[i] \notin Whitespace
                              /\ \A j \in 1..(i - 1) : rest[j] \in Whitespace) - 1
         IN  SubSeq(rest, skip + 1, Len(rest))
    ELSE target

(* ------------------------------ pyRunner ------------------------------ *)
NoPromise == 0
NoInstance == 0
CallIds == 1..MaxCalls
PromiseIds == 1..MaxCalls

\* a loader entry that starts a new initialization after a failed one
loadPyodideOnceRetrying ==
    IF pyodideReady = NoPromise \/ promises[pyodideReady] = "rejected"
    THEN [ready |-> loads + 1, loads |-> loads + 1,
          promises |-> [promises EXCEPT ![loads + 1] = "pending"]]
    ELSE [ready |-> pyodideReady, loads |-> loads, promises |-> promises]

\* a loader entry that starts an initialization on every call
loadPyodideOnceUnguarded ==
    [ready |-> loads + 1, loads |-> loads + 1,
     promises |-> [promises EXCEPT ![loads + 1] = "pending"]]

\* loadPyodideOnce up to its return: the promise it returns, and the module
\* state it leaves
loadPyodideOnce ==
    IF pyodideReady = NoPromise
    THEN [ready |-> loads + 1, loads |-> loads + 1,
          promises |-> [promises EXCEPT ![loads + 1] = "pending"]]
    ELSE [ready |-> pyodideReady, loads |-> loads, promises |-> promises]

\* the regular expressions of runPython over the words of the code
ImportsPackage(code, name) ==
    \/ \E i \in 1..(Len(code) - 1) : code[i] = "import" /\ code[i + 1] = name
    \/ \E i \in 1..(Len(code) - 2) :
          code[i] = "from" /\ code[i + 1] = name /\ code[i + 2] = "import"

\* a runPython that pre-loads nothing
DetectNothing(code) == <<>>

\* the packages array of runPython
DetectPackages(code) ==
    (IF ImportsPackage(code, "pandas") THEN <<"pandas">> ELSE <<>>) \o
    (IF ImportsPackage(code, "numpy") THEN <<"numpy">> ELSE <<>>)

\* the action of a call that no action button started
NoAction == [action |-> "none", target |-> <<>>]

\* the stream handlers: the one window.loadPyodide was given, and no handler
ConsoleSink == 0
NoSink == -1
\* py.setStdout / py.setStderr return nothing, or the handler they replaced
SinkReturns == {"undefined", "previous"}

UnusedCall == [kind |-> "none", pc |-> "unused", path |-> <<>>, code |-> <<>>,
               suppress |-> FALSE, promise |-> NoPromise, py |-> NoInstance,
               packages |-> <<>>,
               sinksBefore |-> <<ConsoleSink, ConsoleSink>>,
               restoreStdout |-> NoSink, restoreStderr |-> NoSink,
               action |-> NoAction, trace |-> <<>>,
               emitted |-> 0, breakBefore |-> FALSE, echoAt |-> 0]

\* a call that has entered runPython(code) and waits for loadPyodideOnce
RunPythonEntered(call, code) ==
    [call EXCEPT !.pc = "load", !.code = code,
                 !.promise = loadPyodideOnce.ready,
                 !.sinksBefore = <<stdoutSink, stderrSink>>,
                 !.trace = @ \o <<"runPython">>]

\* restoreStdout = py.setStdout(...) and restoreStderr = py.setStderr(...):
\* the value the variable gets
SetSinkResult(replaced) ==
    IF sinkReturn = "previous" THEN replaced ELSE NoSink

\* a call inside runPython that has installed its callbacks and awaits
\* py.runPythonAsync(code)
ExecEntered(call) ==
    [call EXCEPT !.pc = "exec",
                 !.restoreStdout = SetSinkResult(stdoutSink),
                 !.restoreStderr = SetSinkResult(stderrSink),
                 !.trace = @ \o <<"runPythonAsync">>]

\* the interpreter's handlers once call c has installed its callbacks
CallbacksInstalled(c) ==
    /\ stdoutSink' = c
    /\ stderrSink' = c

\* the finally block of runPython
SinksRestored(c) ==
    /\ stdoutSink' = IF calls[c].restoreStdout # NoSink
                     THEN calls[c].restoreStdout ELSE stdoutSink
    /\ stderrSink' = IF calls[c].restoreStderr # NoSink
                     THEN calls[c].restoreStderr ELSE stderrSink

\* the module state of pyRunner after a call of loadPyodideOnce
LoaderCalled ==
    /\ pyodideReady' = loadPyodideOnce.ready
    /\ loads' = loadPyodideOnce.loads
    /\ promises' = loadPyodideOnce.promises

\* the calls inside runPython
RunPythonPcs == {"load", "loadPackage", "exec"}
InFlight ==
    {c \in CallIds : /\ calls[c].kind \in {"runAction", "runCurrentEditorPython"}
                     /\ calls[c].pc \in RunPythonPcs}

(* -------------------------------- Init -------------------------------- *)
AppStart ==
    /\ mounted = FALSE
    /\ running = FALSE
    /\ output = <<>>
    /\ currentFilePath = <<>>
    /\ editorValue = PlainSource
    /\ sampleCode = <<>>
    /\ exerciseActive = FALSE
    /\ opened = <<>>
    /\ samplePending = 0
    /\ pyodideReady = NoPromise
    /\ promises = [p \in PromiseIds |-> "none"]
    /\ loads = 0
    /\ calls = [c \in CallIds |-> UnusedCall]
    /\ stdoutSink = ConsoleSink
    /\ stderrSink = ConsoleSink
    /\ completions = 0
    /\ ncalls = 0

\* the application before its first render: the stored preference and the
\* curriculum are its inputs
AppInit ==
    /\ AppStart
    /\ suppressWarnings \in BOOLEAN
    /\ toc \in Curricula
    /\ sinkReturn \in SinkReturns

\* one more asynchronous completion is handled
Completed ==
    /\ completions < MaxCompletions
    /\ completions' = completions + 1

(* ------------------------------ triggers ------------------------------ *)
\* the effects of the first render: ensurePyodide() and showHelloInEditor()
Mount ==
    /\ program = "application"
    /\ ~mounted
    /\ mounted' = TRUE
    /\ ncalls' = ncalls + 1
    /\ calls' = [calls EXCEPT ![ncalls + 1] =
                    [UnusedCall EXCEPT !.kind = "ensurePyodide", !.pc = "load",
                                       !.promise = loadPyodideOnce.ready]]
    /\ LoaderCalled
    /\ editorValue' = HelloSource
    /\ UNCHANGED <<running, output, currentFilePath, sampleCode,
                   exerciseActive, suppressWarnings, opened, samplePending>>
    /\ UNCHANGED <<toc, sinkReturn, sinks, extVars>>
    /\ UNCHANGED completions

\* the echo line `$ ${target}\n`
EchoLine(target) == <<"$", " ">> \o target \o <<"\n">>

\* `output && !output.endsWith('\n')` as the callbacks of a handler that
\* starts now will evaluate it: on the transcript of the current render
BreakNeeded == output # <<>> /\ ~EndsWith(output, <<"\n">>)

\* a command branch that appends no echo line
EchoSkipped(target) == output

\* the transcript after appendOutput(`$ ${action.target}\n`)
Echoed(target) == output \o EchoLine(target)

\* the command branch of runAction up to its first await or its return:
\* the transcript and the running flag it leaves, where the call stands, and
\* its effects in the order of the code
CommandDispatched(target) ==
    IF StartsWith(target, PythonWord \o <<" ">>)
    THEN [output |-> Echoed(target) \o LoadingLine,
          running |-> TRUE, pc |-> "fetch", path |-> StripPython(target),
          trace |-> <<"echo", "setRunning", "loading", "fetch">>]
    ELSE [output |-> Echoed(target) \o CannotRunLine,
          running |-> running, pc |-> "done", path |-> <<>>,
          trace |-> <<"echo", "cannotRun">>]

\* runAction(action) up to its first await or its return
runAction(action) ==
    LET kind == IF action.action = Undefined THEN "command" ELSE action.action
        target == action.target
        c == ncalls + 1
        finished == [UnusedCall EXCEPT !.kind = "runAction", !.pc = "done",
                                       !.action = action]
    IN  /\ ncalls' = c
        /\ IF kind = "browser" /\ target # <<>>
           THEN /\ opened' = Append(opened, target)
                /\ calls' = [calls EXCEPT ![c] =
                                [finished EXCEPT !.trace = <<"open">>]]
                /\ UNCHANGED <<running, output, currentFilePath>>
           ELSE IF kind = "file" /\ target # <<>>
           THEN /\ currentFilePath' = target
                /\ calls' = [calls EXCEPT ![c] =
                                [finished EXCEPT !.trace = <<"file">>]]
                /\ UNCHANGED <<running, output, opened>>
           ELSE IF kind = "tests" /\ target # <<>>
           THEN /\ currentFilePath' = Trim(SplitFile(target))
                /\ IF SplitCommand(target) = Undefined
                   THEN \* command.trim() throws a TypeError
                        /\ calls' = [calls EXCEPT ![c] =
                                        [finished EXCEPT !.pc = "threw",
                                                         !.trace = <<"file">>]]
                        /\ UNCHANGED output
                   ELSE /\ output' = output
                                       \o EchoLine(Trim(SplitCommand(target)))
                        /\ calls' = [calls EXCEPT ![c] =
                                        [finished EXCEPT
                                            !.trace = <<"file", "echo">>]]
                /\ UNCHANGED <<running, opened>>
           ELSE IF kind = "command" /\ target # <<>>
           THEN LET dispatched == CommandDispatched(target)
                IN  /\ output' = dispatched.output
                    /\ running' = dispatched.running
                    /\ calls' = [calls EXCEPT ![c] =
                                    [finished EXCEPT
                                        !.pc = dispatched.pc,
                                        !.path = dispatched.path,
                                        !.trace = dispatched.trace,
                                        !.suppress = suppressWarnings,
                                        !.breakBefore = BreakNeeded,
                                        !.echoAt = Len(output) + 1]]
                    /\ UNCHANGED <<currentFilePath, opened>>
           ELSE /\ calls' = [calls EXCEPT ![c] = finished]
                /\ UNCHANGED <<running, output, currentFilePath, opened>>

\* a lesson's action button is clicked
ClickAction ==
    \E action \in toc :
        /\ mounted
        /\ ncalls < MaxCalls
        /\ runAction(action)
        /\ UNCHANGED <<mounted, editorValue, sampleCode, exerciseActive,
                       suppressWarnings, samplePending, pyodideReady,
                       promises, loads>>
        /\ UNCHANGED <<toc, sinkReturn, sinks, extVars>>
        /\ UNCHANGED completions

\* runCurrentEditorPython up to its first await, for the editor text its
\* closure holds
runCurrentEditorPython(closureEditorValue) ==
    LET c == ncalls + 1
        code == IF suppressWarnings
                THEN EditorWarningsPrefix \o closureEditorValue
                ELSE closureEditorValue
    IN  /\ ncalls' = c
        /\ output' = output \o EditorEchoLine
        /\ running' = TRUE
        /\ calls' = [calls EXCEPT ![c] =
                        RunPythonEntered(
                            [UnusedCall EXCEPT !.kind = "runCurrentEditorPython",
                                               !.suppress = suppressWarnings,
                                               !.breakBefore = BreakNeeded,
                                               !.echoAt = Len(output) + 1,
                                               !.trace = <<"echo", "setRunning">>],
                            code)]
        /\ LoaderCalled

\* the Run button, disabled while running
ClickRun ==
    /\ mounted
    /\ ~running
    /\ ncalls < MaxCalls
    /\ runCurrentEditorPython(editorValue)
    /\ UNCHANGED <<mounted, currentFilePath, editorValue, sampleCode,
                   exerciseActive, suppressWarnings, opened, samplePending>>
    /\ UNCHANGED <<toc, sinkReturn, sinks, extVars>>
    /\ UNCHANGED completions

\* the start-exercise button, rendered while sampleCode && !exerciseActive
ClickStartExercise ==
    /\ mounted
    /\ sampleCode # <<>> /\ ~exerciseActive
    /\ ncalls < MaxCalls
    /\ exerciseActive' = TRUE
    /\ editorValue' = sampleCode
    /\ runCurrentEditorPython(editorValue)
    /\ UNCHANGED <<mounted, currentFilePath, sampleCode, suppressWarnings,
                   opened, samplePending>>
    /\ UNCHANGED <<toc, sinkReturn, sinks, extVars>>
    /\ UNCHANGED completions

\* onTocItemClick(lesson) for a lesson with a file
onTocItemClick ==
    \E lesson \in {"Data Cleaning Example", "Data Preprocessing"} :
        /\ mounted
        /\ ncalls < MaxCalls
        /\ ncalls' = ncalls + 1
        /\ calls' = [calls EXCEPT ![ncalls + 1] =
                        [UnusedCall EXCEPT !.kind = "onTocItemClick",
                                           !.pc = "done"]]
        /\ currentFilePath' = <<"lesson.py">>
        /\ IF lesson = "Data Cleaning Example"
           THEN /\ samplePending < MaxSampleFetches
                /\ samplePending' = samplePending + 1
                /\ UNCHANGED <<sampleCode, exerciseActive>>
           ELSE /\ sampleCode' = <<>>
                /\ exerciseActive' = FALSE
                /\ UNCHANGED samplePending
        /\ UNCHANGED <<mounted, running, output, editorValue,
                       suppressWarnings, opened, pyodideReady, promises,
                       loads>>
        /\ UNCHANGED <<toc, sinkReturn, sinks, extVars>>
        /\ UNCHANGED completions

\* the fetch of the sample code started by onTocItemClick settles
SampleFetchSettled ==
    /\ samplePending > 0
    /\ samplePending' = samplePending - 1
    /\ \/ LET code == ContentOf(<<DataCleaningPath>>)
          IN  /\ sampleCode' = code
              /\ exerciseActive' = FALSE
              /\ editorValue' = code
       \/ /\ sampleCode' = <<>>
          /\ UNCHANGED <<exerciseActive, editorValue>>
    /\ UNCHANGED <<mounted, running, output, currentFilePath,
                   suppressWarnings, opened, pyodideReady, promises, loads,
                   calls, ncalls>>
    /\ UNCHANGED <<toc, sinkReturn, sinks, extVars>>
    /\ Completed

(* --------------------------- continuations ---------------------------- *)
\* a catch block that reports the failure twice
FailureLineTwice(c) ==
    IF calls[c].kind = "runAction"
    THEN PythonFailedLine \o PythonFailedLine
    ELSE EditorErrorLine \o EditorErrorLine

\* what the catch block of the caller of call c appends
FailureLine(c) ==
    IF calls[c].kind = "runAction" THEN PythonFailedLine ELSE EditorErrorLine

\* what the catch and finally blocks of the caller do when runPython, or
\* the fetch before it, has thrown
CallerCatches(c) ==
    /\ output' = output \o FailureLine(c)
    /\ running' = FALSE
    /\ calls' = [calls EXCEPT ![c].pc = "done",
                              ![c].trace = @ \o <<"failure", "clearRunning">>]

\* the fetch of runAction settles; on success runPython is entered
FetchSettled ==
    \E c \in CallIds :
        /\ calls[c].pc = "fetch"
        /\ \/ LET fetched == ContentOf(calls[c].path)
                     code == IF calls[c].suppress
                             THEN ActionWarningsPrefix \o fetched
                             ELSE fetched
                 IN  /\ calls' = [calls EXCEPT ![c] =
                                     RunPythonEntered(calls[c], code)]
                     /\ LoaderCalled
                     /\ UNCHANGED <<running, output>>
           \/ /\ CallerCatches(c)
              /\ UNCHANGED <<pyodideReady, promises, loads>>
        /\ UNCHANGED <<mounted, currentFilePath, editorValue, sampleCode,
                       exerciseActive, suppressWarnings, opened,
                       samplePending, ncalls>>
        /\ UNCHANGED <<toc, sinkReturn, sinks, extVars>>
        /\ Completed

\* window.loadPyodide fulfils or rejects a promise it returned
LoadSettled ==
    \E p \in PromiseIds, outcome \in {"fulfilled", "rejected"} :
        /\ promises[p] = "pending"
        /\ promises' = [promises EXCEPT ![p] = outcome]
        /\ UNCHANGED <<mounted, running, output, currentFilePath, editorValue,
                       sampleCode, exerciseActive, suppressWarnings, opened,
                       samplePending, pyodideReady, loads, calls, ncalls>>
        /\ UNCHANGED <<toc, sinkReturn, sinks, extVars>>
        /\ Completed

\* a call resumes after await loadPyodideOnce()
LoadAwaited ==
    \E c \in CallIds :
        /\ calls[c].pc = "load"
        /\ promises[calls[c].promise] # "pending"
        /\ IF calls[c].kind = "ensurePyodide"
           THEN /\ calls' = [calls EXCEPT
                                ![c].pc = "done",
                                ![c].py = IF promises[calls[c].promise] = "fulfilled"
                                          THEN calls[c].promise ELSE NoInstance]
                /\ UNCHANGED <<running, output, sinks>>
           ELSE IF promises[calls[c].promise] = "fulfilled"
           THEN LET packages == DetectPackages(calls[c].code)
                    loaded == [calls[c] EXCEPT !.py = calls[c].promise,
                                               !.packages = packages]
                IN  /\ IF packages # <<>>
                       THEN /\ calls' = [calls EXCEPT ![c] =
                                            [loaded EXCEPT
                                                !.pc = "loadPackage",
                                                !.trace = @ \o <<"loadPackage">>]]
                            /\ UNCHANGED sinks
                       ELSE /\ calls' = [calls EXCEPT ![c] = ExecEntered(loaded)]
                            /\ CallbacksInstalled(c)
                    /\ UNCHANGED <<running, output>>
           ELSE CallerCatches(c) /\ UNCHANGED sinks
        /\ UNCHANGED <<mounted, currentFilePath, editorValue, sampleCode,
                       exerciseActive, suppressWarnings, opened,
                       samplePending, pyodideReady, promises, loads, ncalls>>
        /\ UNCHANGED <<toc, sinkReturn, extVars>>
        /\ Completed

\* py.loadPackage settles; its failure is ignored
PackagesSettled ==
    \E c \in CallIds :
        /\ calls[c].pc = "loadPackage"
        /\ \E settled \in {"packagesLoaded", "packagesFailed"} :
              calls' = [calls EXCEPT ![c] =
                           ExecEntered([calls[c] EXCEPT
                                           !.trace = @ \o <<settled>>])]
        /\ CallbacksInstalled(c)
        /\ UNCHANGED <<mounted, running, output, currentFilePath, editorValue,
                       sampleCode, exerciseActive, suppressWarnings, opened,
                       samplePending, pyodideReady, promises, loads, ncalls>>
        /\ UNCHANGED <<toc, sinkReturn, extVars>>
        /\ Completed

\* the stdout and stderr callbacks runAction and runCurrentEditorPython
\* pass to runPython: whether the callback of call k appends text
CallbackAppends(k, text) ==
    ~(Trim(text) = <<>> \/ shouldFilterOutput(text, calls[k].suppress))

\* callbacks that are cut off from the transcript
CallbackDropped(k, text) == output

\* the transcript after the callback of call k has appended text
CallbackAppended(k, text) ==
    output \o (IF calls[k].breakBefore THEN <<"\n">> ELSE <<>>) \o text

\* the running script of a call writes its next chunk: the interpreter
\* passes it to the handler its stream has at that moment
ChunkDelivered ==
    \E c \in CallIds :
        /\ calls[c].pc = "exec"
        /\ calls[c].emitted < Len(ScriptOutput(calls[c].code))
        /\ LET chunk == ScriptOutput(calls[c].code)[calls[c].emitted + 1]
               sink == IF chunk.stream = "stdout" THEN stdoutSink
                                                  ELSE stderrSink
               appends == sink # ConsoleSink /\ CallbackAppends(sink, chunk.text)
           IN  /\ output' = IF appends THEN CallbackAppended(sink, chunk.text)
                                       ELSE output
               /\ calls' = [k \in CallIds |->
                              LET written == IF k = c
                                             THEN [calls[k] EXCEPT !.emitted = @ + 1]
                                             ELSE calls[k]
                              IN  IF appends /\ k = sink
                                  THEN [written EXCEPT !.trace = @ \o <<"chunk">>]
                                  ELSE written]
        /\ UNCHANGED <<mounted, running, currentFilePath, editorValue,
                       sampleCode, exerciseActive, suppressWarnings, opened,
                       samplePending, pyodideReady, promises, loads, ncalls>>
        /\ UNCHANGED <<toc, sinkReturn, sinks, extVars>>
        /\ Completed

\* the clear button of the console: setOutput('')
ClickClear ==
    /\ mounted
    /\ ncalls < MaxCalls
    /\ ncalls' = ncalls + 1
    /\ output' = <<>>
    /\ calls' = [k \in CallIds |->
                   IF k = ncalls + 1
                   THEN [UnusedCall EXCEPT !.kind = "clear", !.pc = "done"]
                   ELSE [calls[k] EXCEPT !.echoAt = 0]]
    /\ UNCHANGED <<mounted, running, currentFilePath, editorValue,
                   sampleCode, exerciseActive, suppressWarnings, opened,
                   samplePending, pyodideReady, promises, loads>>
    /\ UNCHANGED <<toc, sinkReturn, sinks, extVars>>
    /\ UNCHANGED completions

\* py.runPythonAsync settles and the caller continues
ExecSettled ==
    \E c \in CallIds :
        /\ calls[c].pc = "exec"
        /\ SinksRestored(c)
        /\ \/ /\ calls[c].emitted = Len(ScriptOutput(calls[c].code))
              /\ calls' = [calls EXCEPT
                                ![c].pc = "done",
                                ![c].trace = @ \o <<"returned", "clearRunning">>]
              /\ running' = FALSE
              /\ editorValue' =
                    IF /\ calls[c].kind = "runAction"
                       /\ Includes(calls[c].path, DataCleaningPath)
                    THEN SummaryText ELSE editorValue
              /\ UNCHANGED output
           \/ /\ CallerCatches(c)
              /\ UNCHANGED editorValue
        /\ UNCHANGED <<mounted, currentFilePath, sampleCode, exerciseActive,
                       suppressWarnings, opened, samplePending, pyodideReady,
                       promises, loads, ncalls>>
        /\ UNCHANGED <<toc, sinkReturn, extVars>>
        /\ Completed

(* --------------------------- specification ---------------------------- *)
\* a run of a program applies no function in isolation
HelpersIdle ==
    /\ helper = "none"
    /\ helperInput = <<>>
    /\ helperResult = <<>>
    /\ helperApplied = 0

\* a run of a program without the store of the preferences
StoreIdle ==
    /\ storedSuppress = "null"
    /\ storedMode = "null"
    /\ night = FALSE
    /\ storeWritable = TRUE
    /\ lastWritten = "none"
    /\ reloads = 0

\* the extension: the browser application is not part of the run
Init ==
    /\ PoolInit
    /\ HelpersIdle
    /\ StoreIdle
    /\ program = "extension"
    /\ workspaceOpen = TRUE
    /\ AppStart
    /\ suppressWarnings = TRUE
    /\ toc = {}
    /\ sinkReturn = "undefined"

(* --------------------------- the preferences -------------------------- *)
\* everything but the preferences and their store
restVars == <<poolVars, effects, sideVars, program, workspaceOpen, helperVars,
              running, output, currentFilePath, editorValue, sampleCode,
              exerciseActive, opened, samplePending, pyodideReady, promises,
              loads, calls, toc, stdoutSink, stderrSink, sinkReturn,
              completions, ncalls>>

\* what localStorage may hold under the two keys when the page is loaded
StoredSuppressValues == {"null", "true", "false", "yes", ""}
StoredModeValues == {"null", "night", "day", "dusk"}

\* String(suppressWarnings)
BooleanString(b) == IF b THEN "true" ELSE "false"
\* night ? 'night' : 'day'
ModeString(n) == IF n THEN "night" ELSE "day"

\* the initialiser of useState suppressWarnings
InitialSuppress(v) == IF v = "null" THEN TRUE ELSE v = "true"
\* the initialiser of useState night
InitialNight(v) == v = "night"

\* localStorage.setItem(key, value) on an item: a store that refuses the
\* write throws and leaves the item as it is
SetItem(item, value) == IF storeWritable THEN value ELSE item

\* the first render of the page and its effects: both states are
\* initialised from the store and both are written back
StartUp ==
    /\ program = "preferences"
    /\ ~mounted
    /\ mounted' = TRUE
    /\ suppressWarnings' = InitialSuppress(storedSuppress)
    /\ night' = InitialNight(storedMode)
    /\ storedSuppress' = SetItem(storedSuppress, BooleanString(suppressWarnings'))
    /\ storedMode' = SetItem(storedMode, ModeString(night'))
    /\ UNCHANGED <<storeWritable, lastWritten, reloads, restVars>>

\* the checkbox of the console is changed: setSuppressWarnings and the
\* effect that persists the state
ToggleSuppressWarnings ==
    /\ program = "preferences"
    /\ mounted
    /\ suppressWarnings' = ~suppressWarnings
    /\ storedSuppress' = SetItem(storedSuppress, BooleanString(suppressWarnings'))
    /\ lastWritten' = IF storeWritable THEN BooleanString(suppressWarnings')
                      ELSE lastWritten
    /\ UNCHANGED <<mounted, night, storedMode, storeWritable, reloads, restVars>>

\* the button of ModeToggle is clicked: setNight and its effect
ToggleMode ==
    /\ program = "preferences"
    /\ mounted
    /\ night' = ~night
    /\ storedMode' = SetItem(storedMode, ModeString(night'))
    /\ UNCHANGED <<mounted, suppressWarnings, storedSuppress, storeWritable,
                   lastWritten, reloads, restVars>>

\* the page is left: the states of the components are gone, the store stays
Unload ==
    /\ program = "preferences"
    /\ mounted
    /\ reloads < MaxReloads
    /\ reloads' = reloads + 1
    /\ mounted' = FALSE
    /\ suppressWarnings' = TRUE
    /\ night' = FALSE
    /\ UNCHANGED <<storedSuppress, storedMode, storeWritable, lastWritten,
                   restVars>>

PreferenceInit ==
    /\ PoolInit
    /\ HelpersIdle
    /\ program = "preferences"
    /\ workspaceOpen = TRUE
    /\ AppStart
    /\ suppressWarnings = TRUE
    /\ toc = {}
    /\ sinkReturn = "undefined"
    /\ storedSuppress \in StoredSuppressValues
    /\ storedMode \in StoredModeValues
    /\ storeWritable \in BOOLEAN
    /\ night = FALSE
    /\ lastWritten = "none"
    /\ reloads = 0

PreferenceNext ==
    \/ StartUp
    \/ ToggleSuppressWarnings
    \/ ToggleMode
    \/ Unload

PreferenceSpec == PreferenceInit /\ [][PreferenceNext]_vars

(* ------------------------- functions in isolation --------------------- *)
\* everything of the two programs, which an application of a function
\* leaves alone
programVars == <<poolVars, effects, sideVars, program, workspaceOpen, prefVars,
                 appVars>>

\* Array.prototype.join(separator) of texts
RECURSIVE Join(_, _)
Join(texts, separator) ==
    IF Len(texts) = 0 THEN <<>>
    ELSE IF Len(texts) = 1 THEN texts[1]
    ELSE texts[1] \o separator \o Join(Tail(texts), separator)

\* String.prototype.repeat
Repeat(text, count) ==
    [i \in 1..(Len(text) * count) |-> text[((i - 1) % Len(text)) + 1]]

\* the larger of two numbers, and Math.max of a first number and a list
Larger(a, b) == IF a >= b THEN a ELSE b
RECURSIVE MathMax(_, _)
MathMax(first, rest) ==
    IF Len(rest) = 0 THEN first
    ELSE MathMax(Larger(first, Head(rest)), Tail(rest))

\* String(c) of a cell: a string is itself, a whole number its decimal form
DecimalDigits == <<"0", "1", "2", "3", "4", "5", "6", "7", "8", "9">>
RECURSIVE NumberToString(_)
NumberToString(n) ==
    IF n < 10 THEN <<DecimalDigits[n + 1]>>
    ELSE NumberToString(n \div 10) \o <<DecimalDigits[(n % 10) + 1]>>
String(c) == IF c.isNumber THEN NumberToString(c.number) ELSE c.text

StringCell(text) == [isNumber |-> FALSE, text |-> text, number |-> 0]
NumberCell(n) == [isNumber |-> TRUE, text |-> <<>>, number |-> n]

\* the box-drawing characters
BoxTopLeft == "<box top left>"
BoxTopTee == "<box top tee>"
BoxTopRight == "<box top right>"
BoxLeftTee == "<box left tee>"
BoxCross == "<box cross>"
BoxRightTee == "<box right tee>"
BoxBottomLeft == "<box bottom left>"
BoxBottomTee == "<box bottom tee>"
BoxBottomRight == "<box bottom right>"
BoxVertical == "<box vertical>"
BoxHorizontal == "<box horizontal>"

\* buildTableString: the widths of the columns
colWidths(headers, rows) ==
    [i \in 1..Len(headers) |->
        LET cells == [r \in 1..Len(rows) |-> String(rows[r][i])]
        IN  MathMax(Len(headers[i]),
                    [r \in 1..Len(rows) |-> Len(cells[r])]) + TablePadding * 2]

\* buildTableString: a horizontal line of the box
BoxLine(widths, l, m, r) ==
    <<l>> \o Join([i \in 1..Len(widths) |-> Repeat(<<BoxHorizontal>>, widths[i])],
                  <<m>>)
    \o <<r>>

\* buildTableString: the text of one row of the body
BodyRow(row, widths) ==
    <<BoxVertical>>
    \o Join([i \in 1..Len(row) |-> PadEnd(<<" ">> \o String(row[i]), widths[i])],
            <<BoxVertical>>)
    \o <<BoxVertical>>

BodyJoined(rowTexts) == Join(rowTexts, <<"\n">>)
buildTableString(headers, rows) ==
    LET widths == colWidths(headers, rows)
        top == BoxLine(widths, BoxTopLeft, BoxTopTee, BoxTopRight)
        mid == BoxLine(widths, BoxLeftTee, BoxCross, BoxRightTee)
        bot == BoxLine(widths, BoxBottomLeft, BoxBottomTee, BoxBottomRight)
        head == <<BoxVertical>>
                \o Join([i \in 1..Len(headers) |->
                            PadEnd(<<" ">> \o headers[i] \o <<" ">>, widths[i])],
                        <<BoxVertical>>)
                \o <<BoxVertical>>
        body == BodyJoined([ri \in 1..Len(rows) |->
                    LET txt == BodyRow(rows[ri], widths)
                    IN  IF ri < Len(rows) THEN txt \o <<"\n">> \o mid ELSE txt])
    IN  Join(<<top, head, mid, body, bot>>, <<"\n">>)

\* the tables applied: the headers of the worked example and its prefixes,
\* cells that are strings and numbers, shorter and longer than their header
TableHeaders == {<<>>, << <<"a">> >>, << <<"a">>, <<"b", "b">> >>}
TableCells == {StringCell(<<"x">>), StringCell(<<"y", "y", "y">>), NumberCell(12)}
RowsOf(columns) ==
    UNION {[1..n -> [1..columns -> TableCells]] : n \in 0..MaxRows}
TableInputs ==
    UNION {{[headers |-> h, rows |-> rows] : rows \in RowsOf(Len(h))} :
           h \in TableHeaders}

\* formatTerminalOutput: the width lines are wrapped at
maxWidth == 80

\* line.match(/\s{3,}/)
HasWhitespaceRun(line) ==
    \E i \in 1..(Len(line) - 2) : \A j \in i..(i + 2) : line[j] \in Whitespace

\* a loop that stops before a last slice shorter than the width
RECURSIVE SlicesWholeOnly(_, _)
SlicesWholeOnly(line, start) ==
    IF start + maxWidth <= Len(line)
    THEN <<SubSeq(line, start + 1, start + maxWidth)>>
         \o SlicesWholeOnly(line, start + maxWidth)
    ELSE <<>>

\* formatTerminalOutput: the slices of the while loop, from a 0-based start
RECURSIVE Slices(_, _)
Slices(line, start) ==
    IF start < Len(line)
    THEN LET end == IF start + maxWidth <= Len(line) THEN start + maxWidth
                    ELSE Len(line)
         IN  <<SubSeq(line, start + 1, end)>> \o Slices(line, start + maxWidth)
    ELSE <<>>

\* formatTerminalOutput: line.length <= maxWidth, and a test no line passes
FitsNever(line) == FALSE
FitsWidth(line) == Len(line) <= maxWidth

\* formatTerminalOutput: the callback of flatMap
WrapLine(line) ==
    IF HasWhitespaceRun(line) THEN <<line>>
    ELSE IF FitsWidth(line) THEN <<line>>
    ELSE LET parts == Slices(line, 0)
         IN  [i \in 1..Len(parts) |->
                IF i = 1 THEN parts[i] ELSE <<" ", " ">> \o parts[i]]

\* Array.prototype.flatMap with WrapLine
RECURSIVE FlatWrap(_)
FlatWrap(lines) ==
    IF Len(lines) = 0 THEN <<>>
    ELSE WrapLine(Head(lines)) \o FlatWrap(Tail(lines))

formatTerminalOutput(text) == JoinLines(FlatWrap(SplitLines(text)))

\* the lines applied: short, empty, of the full width, with a run of
\* spaces, and longer than the width by one character and by two widths
SampleLines ==
    {<<"a", "b">>, <<>>, Repeat(<<"y">>, 80), <<"a", " ", " ", " ", "b">>,
     Repeat(<<"x">>, 81), Repeat(<<"x">>, 81) \o <<" ", " ", " ">>,
     Repeat(<<"z">>, 161)}
SampleTexts ==
    {JoinLines(lines) : lines \in UNION {[1..n -> SampleLines] : n \in 1..MaxLines}}

\* an application of formatTerminalOutput to the text drawn at the start, and
\* a second one to what the first returned
ApplyFormatTerminalOutput ==
    /\ helper = "formatTerminalOutput"
    /\ helperApplied = 0
    /\ helperResult' = formatTerminalOutput(helperInput)
    /\ helperApplied' = 1
    /\ UNCHANGED <<helper, helperInput, programVars>>

ApplyFormatTerminalOutputAgain ==
    /\ helper = "formatTerminalOutput"
    /\ helperApplied = 1
    /\ helperResult' = formatTerminalOutput(helperResult)
    /\ helperApplied' = 2
    /\ UNCHANGED <<helper, helperInput, programVars>>

\* the raw lines rendered: echoed commands, warnings in several cases of
\* letters, banners with and without the text of a warning, blank lines
\* and ordinary lines
RawLines ==
    {<<"$", " ", "l", "s">>,
     <<"$", " ", "W", "a", "r", "n", "i", "n", "g", ":", " ", "x">>,
     <<"W", "a", "r", "n", "i", "n", "g", ":", " ", "x">>,
     <<"a", " ", "w", "a", "r", "n", "i", "n", "g", ":", " ", "y">>,
     <<"D", "E", "P", "R", "E", "C", "A", "T", "I", "O", "N", "W", "A", "R", "N", "I", "N", "G">>,
     <<"=", "=", "=", " ", "T", " ", "=", "=", "=">>,
     <<"=", "=", "=", " ", "W", "a", "r", "n", "i", "n", "g", ":", " ", "t", " ", "=", "=", "=">>,
     <<"=", "=", "=", " ", "a", "b", "c">>,
     <<>>,
     <<" ", " ", " ">>,
     <<"h", "e", "l", "l", "o">>,
     <<" ", "$", " ", "x">>,
     <<"=", "=">>,
     WarningColon \o Repeat(<<"w">>, 80)}
RawTexts ==
    {JoinLines(lines) : lines \in UNION {[1..n -> RawLines] : n \in 1..MaxLines}}

\* one rendering of the transcript drawn at the start
ApplyTerminalOutput ==
    /\ helper = "TerminalOutput"
    /\ helperApplied = 0
    /\ helperResult' = TerminalOutput(helperInput)
    /\ helperApplied' = 1
    /\ UNCHANGED <<helper, helperInput, programVars>>

\* the values JSON.parse returns, and "invalid" for a text it rejects
JsonValue(type, items, number, text) ==
    [type |-> type, items |-> items, number |-> number, text |-> text]
EmptyArray == JsonValue("array", <<>>, 0, <<>>)
JsonArray(items) == JsonValue("array", items, 0, <<>>)
\* the elements of an array: a session with its lessons, or null
Session(label, lessons) == [isNull |-> FALSE, label |-> label, lessons |-> lessons]
NullItem == [isNull |-> TRUE, label |-> "", lessons |-> <<>>]
JsonValues ==
    {JsonValue("invalid", <<>>, 0, <<>>),
     JsonValue("null", <<>>, 0, <<>>),
     JsonValue("object", <<>>, 0, <<>>),
     JsonValue("number", <<>>, 0, <<>>),
     JsonValue("number", <<>>, 42, <<>>),
     JsonValue("string", <<>>, 0, <<>>),
     JsonValue("string", <<>>, 0, <<"a", "b">>),
     EmptyArray,
     JsonArray(<<Session("s1", <<>>)>>),
     JsonArray(<<Session("s1", <<"l1", "l2">>), Session("s2", <<"l3">>)>>),
     JsonArray(<<NullItem>>),
     JsonArray(<<Session("s1", <<"l1">>), NullItem>>)}
\* the file .guide/toc.json: absent, present and unreadable, or readable
TocDocuments ==
    {[exists |-> FALSE, readable |-> FALSE, json |-> EmptyArray],
     [exists |-> TRUE, readable |-> FALSE, json |-> EmptyArray]}
    \cup {[exists |-> TRUE, readable |-> TRUE, json |-> v] : v \in JsonValues}

\* value.length: undefined for an object and a number
LengthOf(value) ==
    IF value.type = "array" THEN Len(value.items)
    ELSE IF value.type = "string" THEN Len(value.text)
    ELSE -1
\* !value of a value that is not null
Falsy(value) ==
    \/ value.type = "number" /\ value.number = 0
    \/ value.type = "string" /\ value.text = <<>>

\* getTOCData() in an open workspace: the data returned and the message shown
getTOCData(document) ==
    IF ~document.exists
    THEN [data |-> EmptyArray, message |-> "The guide wasn't found in the workspace."]
    ELSE IF \/ ~document.readable
            \/ document.json.type = "invalid"
            \/ document.json.type = "null"
    THEN \* readFileSync, JSON.parse or parsedData.length throws in the try block
         [data |-> EmptyArray, message |-> "Error parsing toc.json."]
    ELSE [data |-> document.json, message |-> ""]

\* the view of an empty table of contents
NoTocView == [kind |-> "No Table of Contents available.", guide |-> <<>>]

\* getWebviewContent: the callback of tocData.flatMap for the session at index
GuideItems(item, index) ==
    <<[type |-> "session", label |-> item.label, index |-> index]>>
    \o [l \in 1..Len(item.lessons) |->
          [type |-> "lesson", label |-> item.lessons[l], index |-> l]]
RECURSIVE FlatGuide(_, _)
FlatGuide(items, index) ==
    IF index > Len(items) THEN <<>>
    ELSE GuideItems(items[index], index) \o FlatGuide(items, index + 1)

\* getWebviewContent(webview): what it returns, or that it throws
getWebviewContent(document) ==
    LET loaded == getTOCData(document)
        tocData == loaded.data
    IN  IF Falsy(tocData) \/ LengthOf(tocData) = 0
        THEN [threw |-> FALSE, data |-> tocData, view |-> NoTocView,
              message |-> loaded.message]
        ELSE IF tocData.type # "array"
        THEN \* tocData.flatMap is not a function
             [threw |-> TRUE, data |-> tocData, view |-> NoTocView,
              message |-> loaded.message]
        ELSE IF \E i \in 1..Len(tocData.items) : tocData.items[i].isNull
        THEN \* item.lessons of null
             [threw |-> TRUE, data |-> tocData, view |-> NoTocView,
              message |-> loaded.message]
        ELSE [threw |-> FALSE, data |-> tocData,
              view |-> [kind |-> "toc", guide |-> FlatGuide(tocData.items, 1)],
              message |-> loaded.message]

\* the effect of App that loads the table of contents:
\* fetch.then(r => r.json()).then(setToc).catch(() => setToc([]))
TocLoad(document) ==
    IF \/ ~document.exists
       \/ ~document.readable
       \/ document.json.type = "invalid"
    THEN [threw |-> FALSE, data |-> EmptyArray, view |-> NoTocView, message |-> ""]
    ELSE [threw |-> FALSE, data |-> document.json, view |-> NoTocView,
          message |-> ""]

\* the view of the extension is built from the document drawn at the start
ApplyGetWebviewContent ==
    /\ helper = "getWebviewContent"
    /\ helperApplied = 0
    /\ helperResult' = getWebviewContent(helperInput)
    /\ helperApplied' = 1
    /\ UNCHANGED <<helper, helperInput, programVars>>

\* the application loads the document drawn at the start
ApplyTocLoad ==
    /\ helper = "TOC load"
    /\ helperApplied = 0
    /\ helperResult' = TocLoad(helperInput)
    /\ helperApplied' = 1
    /\ UNCHANGED <<helper, helperInput, programVars>>

\* one application of buildTableString to the table drawn at the start
ApplyBuildTableString ==
    /\ helper = "buildTableString"
    /\ helperApplied = 0
    /\ helperResult' = buildTableString(helperInput.headers, helperInput.rows)
    /\ helperApplied' = 1
    /\ UNCHANGED <<helper, helperInput, programVars>>

HelperInit ==
    /\ PoolInit
    /\ StoreIdle
    /\ program = "none"
    /\ workspaceOpen = TRUE
    /\ AppStart
    /\ suppressWarnings = TRUE
    /\ toc = {}
    /\ sinkReturn = "undefined"
    /\ helperResult = <<>>
    /\ helperApplied = 0
    /\ \/ /\ helper = "buildTableString"
          /\ helperInput \in TableInputs
       \/ /\ helper = "formatTerminalOutput"
          /\ helperInput \in SampleTexts
       \/ /\ helper = "TerminalOutput"
          /\ helperInput \in RawTexts
       \/ /\ helper \in {"getWebviewContent", "TOC load"}
          /\ helperInput \in TocDocuments

HelperNext ==
    \/ ApplyBuildTableString
    \/ ApplyFormatTerminalOutput
    \/ ApplyFormatTerminalOutputAgain
    \/ ApplyTerminalOutput
    \/ ApplyGetWebviewContent
    \/ ApplyTocLoad

HelperSpec == HelperInit /\ [][HelperNext]_vars


Next ==
    \/ runCommandAction
    \/ runCommandInTerminal
    \/ ShellIntegrationChanged
    \/ ShellExecutionEnded
    \/ TerminalDisposed
    \/ TerminalClosed

Spec == Init /\ [][Next]_vars

AppNext ==
    \/ Mount
    \/ ClickAction
    \/ ClickRun
    \/ ClickStartExercise
    \/ onTocItemClick
    \/ SampleFetchSettled
    \/ FetchSettled
    \/ LoadSettled
    \/ LoadAwaited
    \/ PackagesSettled
    \/ ChunkDelivered
    \/ ExecSettled
    \/ ClickClear

\* the browser application: the extension is not part of the run
InitApp ==
    /\ PoolInit
    /\ HelpersIdle
    /\ StoreIdle
    /\ program = "application"
    /\ workspaceOpen = TRUE
    /\ AppInit

\* the dispatchers of both programs: a run is of the extension, with its
\* side channels and the ends of shell executions, or of the application
DispatchInit ==
    \/ InitApp
    \/ /\ PoolInit
       /\ HelpersIdle
       /\ StoreIdle
       /\ program = "extension"
       /\ workspaceOpen \in BOOLEAN
       /\ AppStart
       /\ suppressWarnings = TRUE
       /\ toc = {}
       /\ sinkReturn = "undefined"

DispatchNext ==
    \/ runCommandAction
    \/ runBrowserAction
    \/ runFileAction
    \/ runTestAction
    \/ runOtherAction
    \/ FileOpenSettled
    \/ ShellIntegrationChanged
    \/ ShellExecutionEnded
    \/ AppNext

DispatchSpec == DispatchInit /\ [][DispatchNext]_vars

AppSpec == InitApp /\ [][AppNext]_vars

(* ===================== properties of the session pool ================= *)
\* the step just taken handled a command message
SendStep == sends' = sends + 1
\* the step just taken delivered the named event of the runtime
EventStep(op) == sends' = sends /\ last'.op = op

\* the entry the pool holds for a name, and whether its terminal is live
EntryOf(terminalName) == FindIndexByName(terminals, terminalName)
ValidEntry(terminalName) ==
    /\ EntryOf(terminalName) # 0
    /\ terminals[EntryOf(terminalName)].terminal \in windowTerminals

\* texts differ from before by one more text for aTerminal
ForwardedOnlyTo(aTerminal, command) ==
    sent' = [sent EXCEPT ![aTerminal] = Append(@, command)]

\* C1: a send to a name whose session is idle forwards the text to that
\* session's terminal and marks the session busy; a send to a name whose
\* session is busy forwards nothing and leaves the pool as it was.
C1_SendIdleThenBusy ==
    [][ (SendStep /\ ValidEntry(last'.name)) =>
          LET i == EntryOf(last'.name)
              t == terminals[i].terminal
          IN  IF terminals[i].idle
              THEN /\ last'.result = "sent" /\ last'.to = t
                   /\ ForwardedOnlyTo(t, last'.cmd)
                   /\ shown' = t
                   /\ terminals' = [terminals EXCEPT ![i].idle = FALSE]
              ELSE /\ last'.result = "busy"
                   /\ sent' = sent
                   /\ terminals' = terminals
                   /\ UNCHANGED <<windowTerminals, created, shown>> ]_vars

\* a second send was rejected while the first command is still running
C1_Witness ==
    /\ last.result = "busy"
    /\ sends = 2
    /\ \E i \in 1..Len(terminals) :
          /\ termName[terminals[i].terminal] = last.name
          /\ ~terminals[i].idle
          /\ Len(sent[terminals[i].terminal]) = 1
          /\ executing[terminals[i].terminal] = 1

\* C2: no terminal ever has more than one forwarded command whose
\* command-ended signal is still outstanding.
C2_OneInFlight == \A t \in TermIds : executing[t] <= 1

\* a terminal runs its second command after the first one ended
C2_Witness ==
    \E t \in TermIds : Len(sent[t]) = 2 /\ executing[t] = 1

\* C3 (as claimed): a send to a name whose entry is stale creates a new
\* terminal for the name, registers it and forwards the command to it.
C3_StaleCreatesNew ==
    [][ (SendStep /\ IsStale(EntryOf(last'.name), last'.name)
                  /\ created < MaxTerminals) =>
          /\ created' = created + 1
          /\ termName'[created'] = last'.name
          /\ FindIndexByTerminal(terminals', created') # 0
          /\ last'.result = "sent" /\ last'.to = created'
          /\ ForwardedOnlyTo(created', last'.cmd) ]_vars

\* C4 (as claimed): a command-ended signal for the terminal of a pooled
\* session leaves that session idle, whatever events came before.
C4_EndedMakesIdle ==
    [][ (EventStep("ended") /\ FindIndexByTerminal(terminals, last'.to) # 0) =>
          LET i == FindIndexByTerminal(terminals', last'.to)
          IN  i # 0 /\ terminals'[i].idle ]_vars

\* C5: a session-closed signal removes the session of the closed terminal
\* whether idle or busy, so that no session is left under its name; a send
\* to a name without a session creates a new terminal, registers it and
\* forwards the command to it.
C5_CloseThenFresh ==
    [][ /\ EventStep("closed") =>
              /\ FindIndexByTerminal(terminals', last'.to) = 0
              /\ FindIndexByTerminal(terminals, last'.to) # 0 =>
                    FindIndexByName(terminals', termName[last'.to]) = 0
              /\ \A i \in 1..Len(terminals) :
                    terminals[i].terminal # last'.to =>
                       \E j \in 1..Len(terminals') : terminals'[j] = terminals[i]
        /\ (SendStep /\ EntryOf(last'.name) = 0) =>
              /\ created' = created + 1
              /\ termName'[created'] = last'.name
              /\ created' \in windowTerminals'
              /\ terminals' = Append(terminals,
                                     [terminal |-> created', idle |-> FALSE])
              /\ last'.result = "sent" /\ last'.to = created'
              /\ ForwardedOnlyTo(created', last'.cmd) ]_vars

\* terminal 1 was closed while busy and the next send to its name went to
\* the brand-new terminal 2
C5_Witness ==
    /\ created = 2 /\ termName[1] = termName[2]
    /\ executing[1] = 1
    /\ 1 \notin windowTerminals /\ 1 \notin closePending
    /\ FindIndexByTerminal(terminals, 1) = 0
    /\ last.result = "sent" /\ last.to = 2 /\ sends = 2

\* C6: a command-ended signal for a terminal that is no longer in the pool
\* changes no pool entry.
C6_LateEndIgnored ==
    [][ (EventStep("ended") /\ FindIndexByTerminal(terminals, last'.to) = 0) =>
          terminals' = terminals ]_vars

\* the late signal of removed terminal 1 arrived, its listener ran, and the
\* newer session of the same name is still busy with its own command
C6_Witness ==
    /\ last.op = "ended" /\ last.to = 1
    /\ endListeners[1] > 0
    /\ FindIndexByTerminal(terminals, 1) = 0
    /\ created = 2 /\ termName[1] = termName[2]
    /\ \E i \in 1..Len(terminals) :
          /\ terminals[i].terminal = 2
          /\ ~terminals[i].idle
    /\ executing[2] = 1

\* C7 (as claimed): a send to one name leaves every session of another name
\* in the pool with its flag, and forwards nothing to its terminal.
C7_OtherNamesUntouched ==
    [][ SendStep =>
          \A i \in 1..Len(terminals) :
             termName[terminals[i].terminal] # last'.name =>
                /\ \E j \in 1..Len(terminals') : terminals'[j] = terminals[i]
                /\ sent'[terminals[i].terminal] = sent[terminals[i].terminal]
      ]_vars

C9_OneInitialization ==
    /\ loads <= 1
    /\ \A c \in CallIds :
          calls[c].promise # NoPromise =>
             /\ loads = 1
             /\ calls[c].promise = pyodideReady
             /\ calls[c].py \in {NoInstance, pyodideReady}
    /\ \A c, d \in CallIds :
          (calls[c].py # NoInstance /\ calls[d].py # NoInstance) =>
             calls[c].py = calls[d].py

\* the warm-up and two runPython calls all wait for the first, still
\* unfinished, initialization
C9_Witness ==
    /\ loads = 1
    /\ promises[pyodideReady] = "pending"
    /\ calls[1].kind = "ensurePyodide" /\ calls[1].pc = "load"
    /\ Cardinality(InFlight) = 2
    /\ \A c \in InFlight : calls[c].pc = "load"

\* C10 (as claimed): at most one sandboxed execution is in flight.
C10_OneExecution == Cardinality(InFlight) <= 1

(* ================== properties of the dispatchers ===================== *)
\* C11: while the script of a runPython call executes, the call's callbacks
\* are the interpreter's stdout and stderr handlers, and when the call
\* returns or throws the handlers are the ones installed before it began
C11_SinksScoped ==
    [][\A c \in CallIds :
          /\ calls'[c].pc = "exec" => stdoutSink' = c /\ stderrSink' = c
          /\ (calls[c].pc = "exec" /\ calls'[c].pc # "exec")
                => <<stdoutSink', stderrSink'>> = calls[c].sinksBefore]_vars

\* the step just taken dispatched action through the application's runAction
DispatchStep(action) ==
    /\ ncalls' = ncalls + 1
    /\ calls'[ncalls'].kind = "runAction"
    /\ calls'[ncalls'].action = action

\* C12: dispatching a tests action "<file>|<command>" has, besides surfacing
\* the file, the effects of dispatching a command action whose target is
\* the trimmed command: the same transcript lines, running flag, and
\* interpreter invocation or diagnostic line
C12_TestsAsCommand ==
    [][\A action \in toc :
          (/\ DispatchStep(action)
           /\ action.action = "tests"
           /\ action.target # <<>>
           /\ SplitCommand(action.target) # Undefined)
          => LET command == CommandDispatched(Trim(SplitCommand(action.target)))
             IN  /\ output' = command.output
                 /\ running' = command.running
                 /\ calls'[ncalls'].pc = command.pc
                 /\ calls'[ncalls'].path = command.path]_vars

\* position i comes before position j wherever the sequence has one of
\* firsts at i and one of seconds at j
Precede(did, firsts, seconds) ==
    \A i, j \in 1..Len(did) :
        did[i] \in firsts /\ did[j] \in seconds => i < j

\* C13 as stated: when the command of a tests action has been forwarded to
\* a terminal, the file is shown and its open is no longer pending
C13_FileShownFirst ==
    [][(effects'.handler = "runTestAction"
          /\ \E i \in 1..Len(effects'.did) : effects'.did[i] = "sendText")
       => openPending' = <<>>]_vars

\* C13 amended: a tests action hands its file part to the file side-channel
\* (the extension calls openFile and requests the document, the application
\* sets the viewer's file) before it echoes or forwards its command part;
\* the side-channel is not awaited
C13_FileRequestedFirst ==
    [][/\ effects'.handler = "runTestAction"
          => /\ effects'.did[1] = "openFile"
             /\ Precede(effects'.did, {"openFile", "openTextDocument"},
                        {"show", "sendText"})
       /\ \A action \in toc :
             (DispatchStep(action) /\ action.action = "tests"
                                  /\ action.target # <<>>)
             => /\ calls'[ncalls'].trace[1] = "file"
                /\ Precede(calls'[ncalls'].trace, {"file"}, {"echo"})
                /\ currentFilePath' = Trim(SplitFile(action.target))]_vars

\* the command of a tests action was just sent and the open of its file is
\* still pending
C13_Witness ==
    /\ effects.handler = "runTestAction"
    /\ effects.did = <<"openFile", "openTextDocument", "show", "sendText">>
    /\ openPending # <<>>

\* the call came from a command action with a target
IsCommandCall(call) ==
    /\ call.kind = "runAction"
    /\ call.action.action \in {"command", Undefined}
    /\ call.action.target # <<>>

\* the call has done what, at some point
Did(call, what) == \E i \in 1..Len(call.trace) : call.trace[i] = what

\* the echo line of the call stands in text where the call appended it
EchoStands(call, text) ==
    /\ call.echoAt > 0
    /\ Len(text) >= call.echoAt + Len(call.action.target) + 2
    /\ SubSeq(text, call.echoAt, call.echoAt + Len(call.action.target) + 2)
          = EchoLine(call.action.target)

\* what a command action does after its echo line
AfterEcho ==
    {"setRunning", "loading", "fetch", "runPython", "loadPackage",
     "packagesLoaded", "packagesFailed", "runPythonAsync", "chunk",
     "returned", "failure", "cannotRun", "clearRunning"}

PythonPrefix == PythonWord \o <<" ">>

\* what C15 says of the step that dispatches a command action with a
\* non-empty target, where pathStripped says what path is fetched
CommandRouted(action, pathStripped) ==
    LET call == calls'[ncalls']
        target == action.target
    IN  IF StartsWith(target, PythonPrefix)
        THEN /\ call.pc = "fetch"
             /\ Did(call, "fetch")
             /\ pathStripped
        ELSE /\ output' = output \o EchoLine(target) \o CannotRunLine
             /\ call.pc = "done"
             /\ ~Did(call, "fetch")
             /\ running' = running

\* only calls whose target begins with the prefix fetch or reach the
\* interpreter
OnlyPrefixedRun ==
    \A c \in CallIds :
        (IsCommandCall(calls'[c])
         /\ (Did(calls'[c], "fetch") \/ Did(calls'[c], "runPython")))
        => StartsWith(calls'[c].action.target, PythonPrefix)

\* C15 as stated: a command action goes to the interpreter exactly when
\* its target begins with "python ", and the path fetched is the target
\* without these seven characters; any other non-empty target gets the echo
\* and the cannot-run line, no fetch, no interpreter, running unchanged
C15_PrefixStripped ==
    [][/\ \A action \in toc :
             (DispatchStep(action) /\ IsCommandCall(calls'[ncalls']))
             => CommandRouted(action,
                    calls'[ncalls'].path
                       = SubSeq(action.target, Len(PythonPrefix) + 1,
                                Len(action.target)))
       /\ OnlyPrefixedRun]_vars

\* C15 amended: the path fetched is the target without the word python and
\* without the whole run of white space that follows it
C15_WordAndSpaceStripped ==
    [][/\ \A action \in toc :
             (DispatchStep(action) /\ IsCommandCall(calls'[ncalls']))
             => CommandRouted(action,
                        LET path == calls'[ncalls'].path
                            target == action.target
                            gap == Len(target) - Len(path) - Len(PythonWord)
                        IN  /\ gap >= 1
                            /\ target = PythonWord
                                          \o [i \in 1..gap |->
                                                 target[Len(PythonWord) + i]]
                                          \o path
                            /\ \A i \in 1..gap :
                                  target[Len(PythonWord) + i] \in Whitespace
                            /\ path = <<>> \/ path[1] \notin Whitespace)
       /\ OnlyPrefixedRun]_vars

\* a target with two spaces after the word went to the interpreter, and a
\* target with a capital letter got the cannot-run line
C15_Witness ==
    /\ \E c \in CallIds :
          /\ IsCommandCall(calls[c])
          /\ calls[c].action.target = PythonTwoSpaces
          /\ Did(calls[c], "runPython")
    /\ \E c \in CallIds :
          /\ IsCommandCall(calls[c])
          /\ calls[c].action.target = CapitalPython
          /\ Did(calls[c], "cannotRun")

\* the step just taken handled a runAction message of the extension whose
\* kind is one of the four and whose target is empty
EmptyMessageStep ==
    /\ effects'.handler # "none"
    /\ last'.op \in {"send", "browser", "file", "tests"}
    /\ effects'.target = <<>>

\* C16: dispatching an action with an empty target does nothing and raises
\* no error, in both dispatchers: transcript, running flag, viewer file and
\* session pool stay as they are, nothing goes to a terminal or side channel
C16_EmptyTargetNoOp ==
    [][/\ EmptyMessageStep
          => /\ UNCHANGED <<terminals, windowTerminals, created, sent, shown>>
             /\ UNCHANGED <<viewer, openPending, externalOpened,
                            errorMessages>>
             /\ \A i \in 1..Len(effects'.did) : effects'.did[i] # "throw"
       /\ \A action \in toc :
             (DispatchStep(action) /\ action.target = <<>>)
             => /\ UNCHANGED <<output, running, currentFilePath, opened>>
                /\ calls'[ncalls'].pc = "done"]_vars

\* the kinds of action the dispatchers know
Kinds == {"command", "browser", "file", "tests"}

\* a tests target that does not hold exactly one separator between two
\* parts that are non-empty once trimmed
MalformedTests(target) ==
    ~ /\ Cardinality(Bars(target)) = 1
      /\ Trim(SplitFile(target)) # <<>>
      /\ Trim(SplitCommand(target)) # <<>>

\* C17: an action of an unknown kind, or a tests action whose target is not
\* "<file>|<command>" with exactly one separator and two non-empty parts,
\* is skipped: no file is surfaced, no command is echoed or forwarded, and
\* no exception leaves the dispatcher
C17_MalformedSkipped ==
    [][/\ (\/ last'.op = "other"
           \/ /\ last'.op \in {"send", "tests"}
              /\ effects'.handler \in {"runTestAction", "runAction"}
              /\ MalformedTests(effects'.target))
          => /\ UNCHANGED <<terminals, windowTerminals, created, sent, shown>>
             /\ UNCHANGED <<viewer, openPending, externalOpened,
                            errorMessages>>
             /\ \A i \in 1..Len(effects'.did) : effects'.did[i] # "throw"
       /\ \A action \in toc :
             (/\ DispatchStep(action)
              /\ \/ action.action \notin Kinds \cup {Undefined}
                 \/ action.action = "tests" /\ MalformedTests(action.target))
             => /\ UNCHANGED <<output, running, currentFilePath, opened>>
                /\ calls'[ncalls'].pc = "done"]_vars

\* how often the call has done what
Count(call, what) ==
    Cardinality({i \in 1..Len(call.trace) : call.trace[i] = what})

\* the fixed failure lines of the two callers of runPython
FailureLines == {PythonFailedLine, EditorErrorLine}

\* C18: when the interpreter raises an error while it executes the code of
\* a call, the caller appends exactly one failure line to the transcript,
\* the call ends without an error leaving the dispatcher, the running flag
\* is false, and the interpreter stays loaded for later dispatches
C18_ExecutionErrorContained ==
    [][\A c \in CallIds :
          (/\ calls[c].pc = "exec"
           /\ calls'[c].pc # "exec"
           /\ ~Did(calls'[c], "returned"))
          => /\ Len(output') = Len(output) + 2
             /\ SubSeq(output', 1, Len(output)) = output
             /\ SubSeq(output', Len(output) + 1, Len(output')) \in FailureLines
             /\ output'[Len(output')] = "\n"
             /\ calls'[c].pc = "done"
             /\ Count(calls'[c], "failure") = 1
             /\ running' = FALSE
             /\ UNCHANGED <<pyodideReady, promises, loads, mounted, ncalls>>
             /\ \A k \in CallIds \ {c} : calls'[k] = calls[k]]_vars

\* a run of the editor's code failed inside the interpreter, and a run
\* started with the Run button after it delivered its output
C18_Witness ==
    /\ ~exerciseActive
    /\ ~running
    /\ \E c, k \in CallIds :
          /\ c < k
          /\ calls[c].kind = "runCurrentEditorPython"
          /\ calls[k].kind = "runCurrentEditorPython"
          /\ Did(calls[c], "runPythonAsync") /\ Did(calls[c], "failure")
          /\ Did(calls[k], "chunk") /\ Did(calls[k], "returned")

\* the dependencies runPython knows
KnownPackages == {"pandas", "numpy"}

\* C19: in runPython every known dependency the source imports has its
\* pre-load settled, loaded or failed, before the script starts; a failed
\* pre-load is not raised: the script is executed all the same, and a
\* failure of the call comes from the execution
C19_PreloadSettledFirst ==
    \A c \in CallIds :
        (calls[c].kind # "none" /\ Did(calls[c], "runPythonAsync"))
        => /\ \A name \in KnownPackages :
                 ImportsPackage(calls[c].code, name)
                 => /\ \E i \in 1..Len(calls[c].packages) :
                          calls[c].packages[i] = name
                    /\ Did(calls[c], "loadPackage")
           /\ Did(calls[c], "loadPackage")
              => /\ Count(calls[c], "packagesLoaded")
                       + Count(calls[c], "packagesFailed") = 1
                 /\ Precede(calls[c].trace, {"loadPackage"},
                            {"packagesLoaded", "packagesFailed"})
                 /\ Precede(calls[c].trace,
                            {"packagesLoaded", "packagesFailed"},
                            {"runPythonAsync"})
           /\ Precede(calls[c].trace, {"runPythonAsync"},
                      {"returned", "failure"})
           /\ calls[c].pc = "done"
              => Count(calls[c], "returned") + Count(calls[c], "failure") = 1

\* the pre-load of a script that imports pandas and numpy failed, the
\* script was executed all the same, wrote output and ended with its own
\* error
C19_Witness ==
    \E c \in CallIds :
        /\ ImportsPackage(calls[c].code, "pandas")
        /\ ImportsPackage(calls[c].code, "numpy")
        /\ Did(calls[c], "packagesFailed")
        /\ calls[c].emitted > 0
        /\ Did(calls[c], "failure")

\* the text holds one of the substrings the filter lists
Listed(text) ==
    \E i \in 1..Len(warningPatterns) : IncludesText(text, warningPatterns[i])

\* the chunk the script of call c has written in the step just taken
WrittenChunk(c) == ScriptOutput(calls[c].code)[calls'[c].emitted]

\* the handler the stream of a chunk had when the chunk was written
SinkOf(chunk) == IF chunk.stream = "stdout" THEN stdoutSink ELSE stderrSink

\* the transcript has grown by text, after a line break or not
AppendedTo(text) ==
    /\ Len(output') - Len(output) - Len(text) \in {0, 1}
    /\ SubSeq(output', 1, Len(output)) = output
    /\ EndsWith(output', text)
    /\ Len(output') = Len(output) + Len(text) + 1
       => output'[Len(output) + 1] = "\n"

ChunkWritten(c) == calls'[c].emitted = calls[c].emitted + 1

\* C21: the transcript is append-only: every step leaves the earlier
\* transcript as a prefix of the later one, and what an output callback
\* appends is the chunk alone, whatever the transcript holds
C21_AppendOnly ==
    [][/\ StartsWith(output', output)
       /\ \A c \in CallIds :
             ChunkWritten(c)
             => output' \in {output, output \o WrittenChunk(c).text}]_vars

\* the step just taken was onTocItemClick
LessonSelected ==
    /\ ncalls' = ncalls + 1
    /\ calls'[ncalls'].kind = "onTocItemClick"

\* C22: selecting another lesson while an execution is in flight does not
\* stop it and changes neither the transcript nor the running flag; a chunk
\* that the output callbacks receive after that, and do not drop as blank or
\* as a suppressed warning, is appended to the one transcript
C22_LessonClickKeepsRun ==
    [][/\ LessonSelected
          => /\ UNCHANGED <<output, running, sinks, promises, pyodideReady>>
             /\ \A c \in 1..ncalls : calls'[c] = calls[c]
       /\ (\E k \in CallIds : calls[k].kind = "onTocItemClick")
          => \A c \in CallIds :
                (/\ ChunkWritten(c)
                 /\ SinkOf(WrittenChunk(c)) # ConsoleSink
                 /\ CallbackAppends(SinkOf(WrittenChunk(c)),
                                    WrittenChunk(c).text))
                => AppendedTo(WrittenChunk(c).text)]_vars

\* a lesson was selected after an execution was started, and the execution
\* is still running and has written output to the transcript
C22_Witness ==
    \E c, k \in CallIds :
        /\ c < k
        /\ calls[k].kind = "onTocItemClick"
        /\ calls[c].kind \in {"runAction", "runCurrentEditorPython"}
        /\ calls[c].pc = "exec"
        /\ calls[c].emitted > 0
        /\ Did(calls[c], "chunk")
        /\ running

(* ------------------------ properties of the names --------------------- *)
\* C23: a command forwarded for a command action or a tests action goes to
\* the session named by the terminal attribute of the action, or to the
\* default-named session when the action has none; a terminal is created
\* for a name only when the pool has no entry of that name
C23_NamedSession ==
    [][/\ (effects'.handler \in {"send", "runTestAction"}
           /\ last'.result = "sent")
          => termName'[last'.to] = effects'.terminal
       /\ created' # created
          => FindIndexByName(terminals, last'.name) = 0]_vars

(* ---------------------- properties of the functions ------------------- *)
TableLines == SplitLines(helperResult)
BoxSeparators ==
    {BoxTopLeft, BoxTopTee, BoxTopRight, BoxLeftTee, BoxCross, BoxRightTee,
     BoxBottomLeft, BoxBottomTee, BoxBottomRight, BoxVertical}
SeparatorPositions(line) == {i \in 1..Len(line) : line[i] \in BoxSeparators}
\* the positions the separators of a table of these widths stand at
RECURSIVE PositionsFrom(_, _)
PositionsFrom(widths, from) ==
    IF Len(widths) = 0 THEN {from}
    ELSE {from} \cup PositionsFrom(Tail(widths), from + Head(widths) + 1)
\* a table of no column has its two borders side by side
ExpectedPositions(widths) ==
    IF Len(widths) = 0 THEN {1, 2} ELSE PositionsFrom(widths, 1)
LongestCell(rows, i) ==
    IF Len(rows) = 0 THEN 0
    ELSE CHOOSE n \in {Len(String(rows[r][i])) : r \in 1..Len(rows)} :
            \A r \in 1..Len(rows) : Len(String(rows[r][i])) <= n
ExpectedWidths(headers, rows) ==
    [i \in 1..Len(headers) |-> Larger(Len(headers[i]), LongestCell(rows, i)) + 2]

\* C24: every line of buildTableString's result has the same length and its
\* column separators at the same positions, for any number of rows, zero
\* included; each column is max(header length, longest cell length) + 2
\* wide, and exactly one separator row stands between consecutive body rows.
C24_TableAligned ==
    (helper = "buildTableString" /\ helperApplied = 1)
    => LET headers == helperInput.headers
           rows == helperInput.rows
           positions == ExpectedPositions(ExpectedWidths(headers, rows))
           n == Len(rows)
       IN  /\ \A i \in 1..Len(TableLines) :
                 /\ Len(TableLines[i]) = Len(TableLines[1])
                 /\ SeparatorPositions(TableLines[i]) = positions
           /\ Len(TableLines) = 4 + (IF n = 0 THEN 0 ELSE 2 * n - 1)
           /\ \A r \in 1..n :
                 /\ TableLines[2 + 2 * r][1] = BoxVertical
                 /\ r < n => TableLines[3 + 2 * r] = TableLines[3]

\* the lines formatTerminalOutput has nothing to wrap in
ShortPlain(line) == Len(line) <= 80 /\ ~HasWhitespaceRun(line)
\* the number of lines the lines before line i of the text have become
LinesBefore(lines, i) == Len(FlatWrap(SubSeq(lines, 1, i - 1)))

\* C25: formatTerminalOutput returns unchanged every line of at most 80
\* characters without a run of three or more whitespace characters, so a
\* second application to a text of such lines changes nothing.
C25_ShortLinesUnchanged ==
    (helper = "formatTerminalOutput" /\ helperApplied >= 1)
    => LET lines == SplitLines(helperInput)
           result == SplitLines(helperResult)
       IN  /\ helperApplied = 1
              => \A i \in 1..Len(lines) :
                    ShortPlain(lines[i])
                    => /\ LinesBefore(lines, i) < Len(result)
                       /\ result[LinesBefore(lines, i) + 1] = lines[i]
           /\ (\A i \in 1..Len(lines) : ShortPlain(lines[i]))
              => helperResult = helperInput

\* a text of short lines only was formatted twice
C25_Witness ==
    /\ helper = "formatTerminalOutput"
    /\ helperApplied = 2
    /\ Len(SplitLines(helperInput)) > 1
    /\ \A i \in 1..Len(SplitLines(helperInput)) :
          ShortPlain(SplitLines(helperInput)[i]) /\ Len(SplitLines(helperInput)[i]) > 0

\* the raw lines of the transcript rendered and the lines they became: the
\* heading is two lines and an empty line follows it
RawLine(i) == SplitLines(helperInput)[i]
RenderedLine(i) == SplitLines(helperResult)[3 + i]
IsEcho(line) == StartsWith(line, <<"$", " ">>)
IsBanner(line) ==
    StartsWith(line, <<"=", "=", "=">>) /\ EndsWith(line, <<"=", "=", "=">>)
IsNote(text) == StartsWith(text, <<"<bullet>", " ", "[">> \o WarningLabel)
Rendered == helper = "TerminalOutput" /\ helperApplied = 1
\* the rules, each applied to the lines no earlier rule matched
RulesInOrder(i) ==
    LET line == RawLine(i)
        result == RenderedLine(i)
    IN  IF IsEcho(line)
        THEN result = <<"<play>", " ">> \o SubSeq(line, 3, Len(line))
        ELSE IF IsWarningLine(line) THEN IsNote(result)
        ELSE IF IsBanner(line) THEN result = line
        ELSE IF \A j \in 1..Len(line) : line[j] \in Whitespace
        THEN result = <<>>
        ELSE IF StartsWith(line, <<"=", "=", "=">>) THEN result = line
        ELSE result = <<" ", " ">> \o line

\* C26: the line classifier maps each raw line by the first matching rule
\* in the order echo, warning note, banner, blank, two-space indent; in
\* particular a banner line is always passed through unmodified, whatever
\* text it contains.
C26_BannerAlwaysUnmodified ==
    Rendered
    => \A i \in 1..Len(SplitLines(helperInput)) :
          /\ RulesInOrder(i)
          /\ IsBanner(RawLine(i)) => RenderedLine(i) = RawLine(i)

\* C26, amended: the rules apply in that order, so a banner line passes
\* through unmodified only if it has no "Warning:" and no
\* "DeprecationWarning" in any case of letters; a banner with one of them
\* becomes a warning note.  A line that only starts with "===" passes
\* through unmodified as well.
C26_RuleOrder ==
    Rendered
    => /\ Len(SplitLines(helperResult)) >= 3 + Len(SplitLines(helperInput))
       /\ \A i \in 1..Len(SplitLines(helperInput)) :
             /\ RulesInOrder(i)
             /\ IsBanner(RawLine(i))
                => IF IsWarningLine(RawLine(i))
                   THEN IsNote(RenderedLine(i)) /\ RenderedLine(i) # RawLine(i)
                   ELSE RenderedLine(i) = RawLine(i)

\* a transcript with a banner that holds the text of a warning and a
\* banner that does not was rendered
C26_Witness ==
    /\ Rendered
    /\ \E i, j \in 1..Len(SplitLines(helperInput)) :
          /\ IsBanner(RawLine(i)) /\ IsWarningLine(RawLine(i))
          /\ IsBanner(RawLine(j)) /\ ~IsWarningLine(RawLine(j))

(* --------------------- properties of the preferences ------------------ *)
StartingUp == ~mounted /\ mounted'

\* C27: on start-up the preference equals the stored value when the store
\* holds "true" or "false" and the default, true, when the stored value is
\* missing or any other string; a value written by the toggle is read back
\* unchanged on the next start-up.
C27_PreferenceRoundTrip ==
    [][StartingUp
       => /\ storedSuppress \in {"true", "false"}
             => suppressWarnings' = (storedSuppress = "true")
          /\ storedSuppress \notin {"true", "false"}
             => suppressWarnings' = TRUE
          /\ lastWritten # "none"
             => suppressWarnings' = (lastWritten = "true")]_vars

(* ----------------------- properties of the loaders -------------------- *)
\* a step left a promise rejected that nothing handles
UnhandledRejection ==
    /\ effects' # effects
    /\ \E i \in 1..Len(effects'.did) : effects'.did[i] = "rejected"
\* the opening of a file settled
OpenSettled == Len(openPending') < Len(openPending)
\* the fetch of the source of call c settled without the source
FetchFailed(c) ==
    /\ calls[c].pc = "fetch"
    /\ calls'[c].pc # "fetch"
    /\ ~Did(calls'[c], "runPython")

\* C28: a failed fetch of the source of a python command, and a failed
\* opening of a file by the extension, without a workspace folder too,
\* never propagates as an unhandled error: it is caught in the operation
\* and replaced by a fixed text or a visible diagnostic.
C28_FailureContained ==
    [][/\ ~UnhandledRejection
       /\ OpenSettled
          => \/ errorMessages' = errorMessages + 1
             \/ \E i \in 1..Len(openPending) : viewer' = openPending[i]
       /\ \A c \in CallIds :
             FetchFailed(c)
             => /\ calls'[c].pc = "done"
                /\ output' = output \o PythonFailedLine]_vars

\* a document that is no sequence of sessions
Malformed(document) ==
    \/ ~document.exists
    \/ ~document.readable
    \/ document.json.type # "array"
    \/ \E i \in 1..Len(document.json.items) : document.json.items[i].isNull

\* C29: loading a malformed curriculum document (missing, unreadable,
\* invalid JSON, or valid JSON that is not a sequence of sessions) yields
\* the empty curriculum and the empty table-of-contents view, and raises no
\* error out of the loader or the view builder.
C29_MalformedIsEmpty ==
    (/\ helper \in {"getWebviewContent", "TOC load"}
     /\ helperApplied = 1
     /\ Malformed(helperInput))
    => /\ ~helperResult.threw
       /\ helperResult.data = EmptyArray
       /\ helperResult.view = NoTocView

(* ---------------------- properties of the busy state ------------------ *)
\* terminal t has a session in the pool, and the session is busy
InPool(pool, t) == FindIndexByTerminal(pool, t) # 0
BusyIn(pool, t) == InPool(pool, t) /\ ~pool[FindIndexByTerminal(pool, t)].idle
\* the step handled the end of a shell execution of terminal t
EndedFor(t) == last'.op = "ended" /\ last'.to = t /\ executing'[t] < executing[t]

\* C30: a busy session leaves the busy state only through a command-ended
\* signal for its own terminal, to idle, or through removal from the pool;
\* no send and no signal of another terminal makes it idle.
C30_BusyUntilEnded ==
    [][\A t \in TermIds :
          BusyIn(terminals, t)
          => \/ BusyIn(terminals', t)
             \/ ~InPool(terminals', t)
             \/ EndedFor(t)]_vars

\* a session whose listener is subscribed is busy right after the command
\* of another terminal has ended
C30_Witness ==
    \E t, u \in TermIds :
       /\ t # u
       /\ BusyIn(terminals, t)
       /\ endListeners[t] > 0
       /\ last.op = "ended"
       /\ last.to = u

(* --------------------- properties of the life cycle ------------------- *)
IdleIn(pool, t) == InPool(pool, t) /\ pool[FindIndexByTerminal(pool, t)].idle

\* C31: every session follows absent, idle, busy, idle, ..., closed, and
\* closed is final: a terminal handle enters the pool only when it is
\* created, so a handle that was removed never appears in the pool again;
\* a session is created idle, so the send that creates it is accepted; it
\* turns busy only by a send to it and idle only by the end of its command.
C31_LifeCycle ==
    [][\A t \in {u \in TermIds : terminals' # terminals} :
          /\ (~InPool(terminals, t) /\ InPool(terminals', t))
             => /\ t = created + 1
                /\ created' = t
                /\ last'.op = "send"
                /\ last'.result = "sent"
                /\ last'.to = t
          /\ (IdleIn(terminals, t) /\ BusyIn(terminals', t))
             => last'.op = "send" /\ last'.result = "sent" /\ last'.to = t
          /\ (BusyIn(terminals, t) /\ IdleIn(terminals', t))
             => EndedFor(t)]_vars

\* a handle was removed from the pool, and a session created after it has
\* been busy and is idle again
C31_Witness ==
    \E t, u \in TermIds :
       /\ t < u
       /\ u <= created
       /\ ~InPool(terminals, t)
       /\ IdleIn(terminals, u)
       /\ Len(sent[u]) > 0

\* C32: in every reachable state the pool holds at most one entry per
\* session name.
C32_OneEntryPerName ==
    \A i, j \in 1..Len(terminals) :
       termName[terminals[i].terminal] = termName[terminals[j].terminal]
       => i = j

\* the pool holds two sessions, one of which accepted two commands
C32_Witness ==
    /\ Len(terminals) = 2
    /\ \E i \in 1..Len(terminals) : Len(sent[terminals[i].terminal]) >= 2

(* ------------------- properties of the side channels ------------------ *)
\* the application has just dispatched a browser or a file action with a
\* target
SideActionClicked ==
    /\ ncalls' = ncalls + 1
    /\ calls'[ncalls'].kind = "runAction"
    /\ calls'[ncalls'].action.action \in {"browser", "file"}
    /\ calls'[ncalls'].action.target # <<>>
\* the extension has just handled a browser or a file action with a target
SideActionPosted ==
    /\ effects' # effects
    /\ effects'.handler \in {"runBrowserAction", "openFile"}
    /\ effects'.target # <<>>

\* C33: a browser or a file action with a non-empty target forwards the
\* target to the open-URL or the load-file side channel and leaves the
\* transcript, the running flag, the interpreter and the session pool
\* unchanged.
C33_SideChannelOnly ==
    [][/\ SideActionClicked
          => /\ IF calls'[ncalls'].action.action = "browser"
                THEN opened' = Append(opened, calls'[ncalls'].action.target)
                ELSE currentFilePath' = calls'[ncalls'].action.target
             /\ UNCHANGED <<output, running, pyodideReady, promises, loads,
                            sinks, terminals, sent, executing>>
       /\ SideActionPosted
          => /\ IF effects'.handler = "runBrowserAction"
                THEN externalOpened' = Append(externalOpened, effects'.target)
                ELSE openPending' = Append(openPending, effects'.target)
             /\ UNCHANGED <<output, running, pyodideReady, promises, loads,
                            sinks, terminals, sent, executing, created>>]_vars

\* the number of pieces a line is to become: one, or one for every 80
\* characters begun
PiecesOf(line) ==
    IF Len(line) <= 80 \/ HasWhitespaceRun(line) THEN 1
    ELSE (Len(line) + 79) \div 80
RECURSIVE PiecesBefore(_, _)
PiecesBefore(lines, i) ==
    IF i <= 1 THEN 0
    ELSE PiecesBefore(lines, i - 1) + PiecesOf(lines[i - 1])
\* the pieces put together again, the two spaces of every piece after the
\* first removed
RECURSIVE Unwrapped(_)
Unwrapped(pieces) ==
    IF Len(pieces) = 0 THEN <<>>
    ELSE IF Len(pieces) = 1 THEN pieces[1]
    ELSE Unwrapped(SubSeq(pieces, 1, Len(pieces) - 1))
         \o SubSeq(pieces[Len(pieces)], 3, Len(pieces[Len(pieces)]))

\* C34: formatTerminalOutput cuts a line of more than 80 characters without
\* a run of three whitespace characters into consecutive pieces of 80
\* characters, prefixes every piece after the first with two spaces and
\* loses nothing; a line with such a run is returned unchanged whatever its
\* length.
C34_WrapLosesNothing ==
    (helper = "formatTerminalOutput" /\ helperApplied = 1)
    => LET lines == SplitLines(helperInput)
           result == SplitLines(helperResult)
       IN  /\ Len(result) = PiecesBefore(lines, Len(lines) + 1)
           /\ \A i \in 1..Len(lines) :
                 LET from == PiecesBefore(lines, i)
                     k == PiecesOf(lines[i])
                     pieces == SubSeq(result, from + 1, from + k)
                 IN  IF HasWhitespaceRun(lines[i])
                     THEN pieces = <<lines[i]>>
                     ELSE /\ Unwrapped(pieces) = lines[i]
                          /\ \A j \in 1..k :
                                /\ j > 1 => StartsWith(pieces[j], <<" ", " ">>)
                                /\ j < k => Len(pieces[j])
                                            = (IF j = 1 THEN 80 ELSE 82)

\* a line of three pieces and a long line with a run of spaces were formatted
C34_Witness ==
    /\ helper = "formatTerminalOutput"
    /\ helperApplied = 1
    /\ \E i, j \in 1..Len(SplitLines(helperInput)) :
          /\ Len(SplitLines(helperInput)[i]) > 160
          /\ ~HasWhitespaceRun(SplitLines(helperInput)[i])
          /\ Len(SplitLines(helperInput)[j]) > 80
          /\ HasWhitespaceRun(SplitLines(helperInput)[j])
    /\ Len(SplitLines(helperResult)) = 4

(* -------------------- properties of the running flag ------------------ *)
\* the calls that are fetching their source, not yet in runPython
Fetching ==
    {c \in CallIds : calls[c].kind = "runAction" /\ calls[c].pc = "fetch"}

\* C35: the running flag is true in every state in which a sandboxed
\* execution started by runAction or runCurrentEditorPython has not yet
\* completed, and false once every started execution has completed.
C35_RunningWhileInFlight ==
    /\ InFlight # {} => running
    /\ (InFlight = {} /\ Fetching = {}) => ~running

(* ----------------------- properties of overlapping runs --------------- *)
\* call c2 installed its callbacks over the callbacks of call c1: what
\* py.setStdout returned to it is the handler of c1
InstalledOver(c1, c2) ==
    /\ c1 # c2
    /\ calls[c1].kind \in {"runAction", "runCurrentEditorPython"}
    /\ calls[c2].kind \in {"runAction", "runCurrentEditorPython"}
    /\ calls[c2].restoreStdout = c1
    /\ calls[c2].restoreStderr = c1
RunCompleted(c) == calls[c].pc = "done" /\ Did(calls[c], "runPythonAsync")

\* C36: when two runPython calls overlap, the second installing its sinks
\* before the first has finished, then after both have completed the
\* interpreter's stdout and stderr sinks are the ones installed before the
\* first call began, and no callback of a completed call remains installed.
C36_OverlapRestored ==
    \A c1, c2 \in CallIds :
       (/\ InstalledOver(c1, c2)
        /\ RunCompleted(c1)
        /\ RunCompleted(c2)
        /\ \A c \in CallIds : calls[c].pc # "exec")
       => /\ <<stdoutSink, stderrSink>> = calls[c1].sinksBefore
          /\ stdoutSink \notin {c1, c2}
          /\ stderrSink \notin {c1, c2}

(* ------------------ properties of a failed initialization ------------- *)
InitializationFailed ==
    pyodideReady # NoPromise /\ promises[pyodideReady] = "rejected"

\* C37: the interpreter loader is invoked at most once, also when that one
\* initialization fails: after the failure no new initialization is
\* attempted, every call started later awaits the same rejected promise,
\* and every call that awaits it fails with its error.
C37_FailedInitializationKept ==
    [][/\ loads' <= 1
       /\ InitializationFailed
          => /\ UNCHANGED <<pyodideReady, loads, promises>>
             /\ \A c \in CallIds :
                   /\ (calls[c].pc # "load" /\ calls'[c].pc = "load")
                      => calls'[c].promise = pyodideReady
                   /\ (calls[c].pc = "load" /\ calls'[c].pc # "load")
                      => /\ calls'[c].pc = "done"
                         /\ calls'[c].py = NoInstance
                         /\ ~Did(calls'[c], "runPythonAsync")
                         /\ calls[c].kind # "ensurePyodide"
                            => /\ Did(calls'[c], "failure")
                               /\ output' = output \o FailureLine(c)]_vars

\* the one initialization failed, the warm-up got no interpreter and two
\* runs, one of each caller, failed without executing their script
C37_Witness ==
    /\ loads = 1
    /\ InitializationFailed
    /\ calls[1].kind = "ensurePyodide" /\ calls[1].pc = "done"
    /\ \E c, d \in CallIds :
          /\ calls[c].kind = "runAction"
          /\ calls[d].kind = "runCurrentEditorPython"
          /\ \A e \in {c, d} :
                /\ calls[e].pc = "done"
                /\ Did(calls[e], "failure")
                /\ ~Did(calls[e], "runPythonAsync")

(* ------------------ properties of the signal listeners ---------------- *)
\* the entries of a pool that belong to other terminals than t, in order
OthersOf(pool, t) == SelectSeq(pool, LAMBDA e : e.terminal # t)

C39_BreakBeforeChunk ==
    [][\A c \in CallIds :
          (/\ ChunkWritten(c)
           /\ SinkOf(WrittenChunk(c)) # ConsoleSink
           /\ CallbackAppends(SinkOf(WrittenChunk(c)), WrittenChunk(c).text)
           /\ BreakNeeded)
          => output' = output \o <<"\n">> \o WrittenChunk(c).text]_vars

====
